---------------------------- MODULE Spec2Model ----------------------------
(***************************************************************************)
(* A model of the streaming analysis engine of mobilePCD: the              *)
(* AudioProcessor (audio/processor.js) with its start/stop lifecycle, its  *)
(* ring buffer and hop counting, the per-hop pipeline and the live         *)
(* configuration, together with the PitchClassComputer it calls.           *)
(*                                                                         *)
(* Units.  Frequencies are in Hz.  RMS levels are in units of 1e-4,        *)
(* magnitudes in units of 1e-3, the smoothing factor in thousandths and    *)
(* the normalisation exponent in tenths.  A 12-vector of floats is kept    *)
(* exactly, as numerators n over one common denominator d.                 *)
(***************************************************************************)
EXTENDS Integers, Sequences, FiniteSets, TLC

(***************************************************************************)
(* Bounds of the model.                                                    *)
(***************************************************************************)
MaxStarts == 2
MaxStops == 2
MaxChunks == 3
MaxUpdates == 1
MaxTunerUpdates == 2
MaxConfigUpdates == 2
MaxWindowCalls == 4
MaxClears == 2
MaxComputes == 3
MaxTransforms == 3
MaxEstimates == 2

(***************************************************************************)
(* Program constants.                                                      *)
(***************************************************************************)
MinWindow == 32
MinExponent == 5
NumClasses == 12
DefaultSampleRate == 48000
DefaultRefA4 == 440
DefaultSmoothing == 600
DefaultPcdMinRms == 10
DefaultPcdThreshold == 5
DefaultPcdNormalize == 10
MaxSmoothing == 999
MinPcdNormalize == 1
DefaultTunerMinHz == 70
DefaultTunerMaxHz == 1800
DefaultMinProminence == 60
DefaultMinRMS == 30
DefaultReactivity == 350
MinMagnitude == 1
Neighborhood == 10

Null == 0
Classes == 0 .. (NumClasses - 1)
CtxIds == 1 .. MaxStarts
CallIds == 1 .. (MaxStarts + MaxStops)

Max(a, b) == IF a >= b THEN a ELSE b
Min(a, b) == IF a <= b THEN a ELSE b

RECURSIVE Gcd(_, _)
Gcd(a, b) == IF b = 0 THEN a ELSE Gcd(b, a % b)

RECURSIVE Pow2(_)
Pow2(e) == IF e <= 0 THEN 1 ELSE 2 * Pow2(e - 1)

(***************************************************************************)
(* Exact 12-vectors: value i is n[i] / d.                                  *)
(***************************************************************************)
ZeroVec == [n |-> [i \in Classes |-> 0], d |-> 1]

RECURSIVE GcdOver(_, _, _)
GcdOver(n, i, g) == IF i = NumClasses THEN g ELSE GcdOver(n, i + 1, Gcd(g, n[i]))

Reduce(v) ==
  LET g == GcdOver(v.n, 0, v.d)
  IN  [n |-> [i \in Classes |-> v.n[i] \div g], d |-> v.d \div g]

RECURSIVE SumFrom(_, _)
SumFrom(n, i) == IF i = NumClasses THEN 0 ELSE n[i] + SumFrom(n, i + 1)

VecSum(v) == SumFrom(v.n, 0)
IsZeroVec(v) == \A i \in Classes : v.n[i] = 0

(***************************************************************************)
(* clamp(value, min, max)                                                  *)
(***************************************************************************)
Clamp(value, lo, hi) == Min(hi, Max(lo, value))

(***************************************************************************)
(* toPowerOfTwo(value): Math.round(Math.log2(c)) is the e with             *)
(* 2^(e-1/2) <= c < 2^(e+1/2), that is 2^(2e-1) <= c*c < 2^(2e+1).         *)
(***************************************************************************)
RECURSIVE RoundLog2From(_, _)
RoundLog2From(c, e) ==
  IF c * c < Pow2(2 * e + 1) THEN e ELSE RoundLog2From(c, e + 1)

RoundLog2(c) == RoundLog2From(c, 0)

ToPowerOfTwo(value) ==
  LET clamped == Max(MinWindow, value)
      exponent == RoundLog2(clamped)
  IN  Pow2(Max(MinExponent, exponent))

(***************************************************************************)
(* DEFAULT_AUDIO_CONFIG and the configuration a constructor call yields:   *)
(* { ...DEFAULT_AUDIO_CONFIG, ...audioConfig }, with no validation.        *)
(***************************************************************************)
DefaultWindowSize == 16384
DefaultHopSize == 1024
DefaultMinHz == 50
DefaultMaxHz == 5000

DEFAULT_AUDIO_CONFIG ==
  [windowSize |-> DefaultWindowSize, hopSize |-> DefaultHopSize,
   minHz |-> DefaultMinHz, maxHz |-> DefaultMaxHz,
   smoothing |-> DefaultSmoothing, pcdMinRms |-> DefaultPcdMinRms,
   pcdThreshold |-> DefaultPcdThreshold, pcdNormalize |-> DefaultPcdNormalize,
   refA4 |-> DefaultRefA4]

(* DEFAULT_TUNER_CONFIG: minProminence in tenths of a dB, minRMS in units of *)
(* 1e-4, reactivity in thousandths.                                         *)
DEFAULT_TUNER_CONFIG ==
  [enabled |-> TRUE, minHz |-> DefaultTunerMinHz, maxHz |-> DefaultTunerMaxHz,
   minProminence |-> DefaultMinProminence, minRMS |-> DefaultMinRMS,
   reactivity |-> DefaultReactivity]

MergeConfig(defaults, given) ==
  [k \in DOMAIN defaults |-> IF k \in DOMAIN given THEN given[k] ELSE defaults[k]]

(* The caller-supplied configurations the model constructs a processor from. *)
ConstructorConfigs ==
  { [windowSize |-> 4, hopSize |-> 2, maxHz |-> 20000, smoothing |-> 500],
    [windowSize |-> 4, hopSize |-> 3, maxHz |-> 20000, smoothing |-> 0] }

UnsmoothedConfigs ==
  { [windowSize |-> 4, hopSize |-> 2, maxHz |-> 20000, smoothing |-> 0],
    [windowSize |-> 4, hopSize |-> 3, maxHz |-> 20000, smoothing |-> 0] }

(***************************************************************************)
(* The state: the AudioProcessor's fields (ap), the browser objects it     *)
(* acquires (audio contexts, microphone streams, worklet nodes and their   *)
(* message handlers), the async start()/stop() calls in flight, and the    *)
(* history the properties read (log, last).                                *)
(***************************************************************************)
VARIABLES ap, mediaDevices, ctxState, trackState, nodeCtx, onmessage, calls,
          windowing, log, last, limits

vars == <<ap, mediaDevices, ctxState, trackState, nodeCtx, onmessage, calls,
          windowing, log, last, limits>>

World ==
  [ap |-> ap, mediaDevices |-> mediaDevices, ctxState |-> ctxState,
   trackState |-> trackState, nodeCtx |-> nodeCtx, onmessage |-> onmessage,
   calls |-> calls, windowing |-> windowing, log |-> log, last |-> last]

Becomes(w) ==
  \E v \in {w} :
    /\ ap' = v.ap
    /\ mediaDevices' = v.mediaDevices
    /\ ctxState' = v.ctxState
    /\ trackState' = v.trackState
    /\ nodeCtx' = v.nodeCtx
    /\ onmessage' = v.onmessage
    /\ calls' = v.calls
    /\ windowing' = v.windowing
    /\ log' = v.log
    /\ last' = v.last
    /\ UNCHANGED limits

IdleCall == [kind |-> "none", pc |-> "idle", ctx |-> Null, errs |-> 0, stch |-> 0]

NoOp == [op |-> "init", call |-> 0, outcome |-> "none", errs |-> 0, stch |-> 0,
         hops |-> 0, events |-> 0, threw |-> 0,
                      reinit |-> FALSE, stopped |-> FALSE]

(***************************************************************************)
(* RealFFT: the engine's size, its bit-reversal table, and whether the     *)
(* last ensureSize call allocated new buffers (real, imag, magnitudes and  *)
(* the table are allocated together, lines 21-24) or returned early.       *)
(***************************************************************************)
(* new RealFFT() *)
NewRealFFT == [size |-> 0, bitRevTable |-> <<>>, reallocated |-> FALSE]

(* for (; j & bit; bit >>= 1) j ^= bit;  j ^= bit;   (bit a power of two or 0) *)
RECURSIVE NextReversed(_, _)
NextReversed(j, bit) ==
  IF bit > 0 /\ (j \div bit) % 2 = 1
  THEN NextReversed(j - bit, bit \div 2)
  ELSE j + bit

(* The loop of lines 26-32: iteration i stores the j it has reached, which *)
(* it computes from the j of iteration i - 1 (the last entry of `table`).   *)
RECURSIVE FillBitRevTable(_, _)
FillBitRevTable(table, size) ==
  IF Len(table) >= size THEN table
  ELSE FillBitRevTable(Append(table, NextReversed(table[Len(table)], size \div 2)),
                       size)

(* new Uint32Array(size), filled by the loop; index 0 keeps its zero. *)
BitRevTable(size) ==
  LET table == FillBitRevTable(<<0>>, size)
  IN  [i \in 0 .. (size - 1) |-> table[i + 1]]

(* ensureSize with the table of the first size kept (only the buffers are  *)
(* made anew).                                                             *)
EnsureSizeKeepingTable(fft, size) ==
  IF fft.size = size THEN [fft EXCEPT !.reallocated = FALSE]
  ELSE [size |-> size,
        bitRevTable |-> IF fft.size = 0 THEN BitRevTable(size)
                        ELSE [i \in 0 .. (size - 1) |->
                                IF i \in DOMAIN fft.bitRevTable
                                THEN fft.bitRevTable[i] ELSE 0],
        reallocated |-> TRUE]

(* ensureSize(size) *)
EnsureSize(fft, size) ==
  IF fft.size = size THEN [fft EXCEPT !.reallocated = FALSE]
  ELSE [size |-> size, bitRevTable |-> BitRevTable(size), reallocated |-> TRUE]

(* new PitchClassComputer() *)
NewPitchClassComputer ==
  [lookupTable |-> <<>>, hasLookup |-> FALSE, rebuilt |-> FALSE,
   prevSampleRate |-> 0, prevA4 |-> 0, prevLength |-> 0]

(* new Float32Array(length).  A sample is named by its number since the    *)
(* last reset (1, 2, ...); 0 is the zero a fresh or cleared buffer holds.  *)
Zeros(length) == [i \in 1 .. length |-> 0]

(* The identity of a heap object: the place that allocated it and the      *)
(* number of allocations made there before it.  Two references are the     *)
(* same object exactly when these agree.                                   *)
NoObject == [site |-> "none", serial |-> 0]

NewObject(site, serial) == [site |-> site, serial |-> serial]

(***************************************************************************)
(* windowing.js.  The module's state is its windowCache, a map from the    *)
(* requested size to the table object made for it.  `allocated` counts the *)
(* tables the module has made (each one a new Float32Array, lines 13-17),  *)
(* `result` is what the last call returned and `threw` whether it threw.   *)
(* A table's values are determined by its size, so a table is named by the *)
(* object it is and the size it was computed for.                          *)
(***************************************************************************)
EmptyCache == [size \in {} |-> NoObject]

(* const windowCache = new Map() *)
ModuleLoaded ==
  [cache |-> EmptyCache, allocated |-> 0, result |-> NoObject, threw |-> FALSE]

(* The table hannWindow(size) computes: new Float32Array(size), filled.    *)
NewTable(size, serial) ==
  [site |-> "hannWindow", serial |-> serial, size |-> size]

(* hannWindow(size) with the cache test of lines 10-12 left out.           *)
HannWindowUncached(wc, size) ==
  IF size < 0
  THEN [wc EXCEPT !.result = NoObject, !.threw = TRUE]
  ELSE [cache |-> [s \in DOMAIN wc.cache \cup {size} |->
                     IF s = size THEN NewTable(size, wc.allocated)
                     ELSE wc.cache[s]],
        allocated |-> wc.allocated + 1,
        result |-> NewTable(size, wc.allocated),
        threw |-> FALSE]

(* hannWindow(size).  new Float32Array(size) throws a RangeError for a     *)
(* negative size, before anything is cached.                               *)
HannWindow(wc, size) ==
  IF size \in DOMAIN wc.cache
  THEN [wc EXCEPT !.result = wc.cache[size], !.threw = FALSE]
  ELSE IF size < 0
  THEN [wc EXCEPT !.result = NoObject, !.threw = TRUE]
  ELSE [cache |-> [s \in DOMAIN wc.cache \cup {size} |->
                     IF s = size THEN NewTable(size, wc.allocated)
                     ELSE wc.cache[s]],
        allocated |-> wc.allocated + 1,
        result |-> NewTable(size, wc.allocated),
        threw |-> FALSE]

(* clearWindowCache() *)
ClearWindowCache(wc) == [wc EXCEPT !.cache = EmptyCache]

(* const { tuner, ...audioConfig } = config; ...(tuner || {}) *)
TunerOf(config) ==
  IF "tuner" \in DOMAIN config THEN config.tuner ELSE <<>>

(* new AudioProcessor(config) *)
Construct(config) ==
  [config |-> MergeConfig(DEFAULT_AUDIO_CONFIG, config),
   tunerConfig |-> MergeConfig(DEFAULT_TUNER_CONFIG, TunerOf(config)),
   audioContext |-> Null, mediaStreamSource |-> Null, silentGain |-> Null,
   workletNode |-> Null, micStream |-> Null,
   sampleRate |-> DefaultSampleRate, running |-> FALSE,
   windowLen |-> MergeConfig(DEFAULT_AUDIO_CONFIG, config).windowSize,
   ringLen |-> MergeConfig(DEFAULT_AUDIO_CONFIG, config).windowSize,
   ringBuffer |-> Zeros(MergeConfig(DEFAULT_AUDIO_CONFIG, config).windowSize),
   analysisLen |-> MergeConfig(DEFAULT_AUDIO_CONFIG, config).windowSize,
   writeIndex |-> 0, filled |-> 0, hopCounter |-> 0,
   currentPcd |-> ZeroVec, rawPcd |-> ZeroVec, lastRms |-> 0,
   currentPcdObject |-> NewObject("constructor", 0),
   windowFn |-> HannWindow(ModuleLoaded,
                           MergeConfig(DEFAULT_AUDIO_CONFIG, config).windowSize).result,
   fft |-> NewRealFFT,
   pcdComputer |-> NewPitchClassComputer]

(* getCurrentPcd() *)
GetCurrentPcd(a) == a.currentPcdObject

(* estimatePrimary returned null *)
(* prominenceDb is either the literal 0 or the value of                    *)
(* 20 * Math.log10((peak + 1e-12) / (sum / count + 1e-12)), which is named *)
(* by its three operands.                                                  *)
ZeroDb == [literal |-> TRUE, peak |-> 0, sum |-> 0, count |-> 0]

LogRatioDb(peak, sum, count) ==
  [literal |-> FALSE, peak |-> peak, sum |-> sum, count |-> count]

NoCandidate == [found |-> FALSE, k |-> 0, maxVal |-> 0, sum |-> 0, count |-> 0,
                prominenceDb |-> ZeroDb,
                kRef |-> [n |-> 0, d |-> 1], freq |-> [n |-> 0, d |-> 1]]

(* primary = null *)
NoPrimary ==
  [found |-> FALSE, freq |-> [n |-> 0, d |-> 1], prominenceDb |-> ZeroDb,
   nearestMidi |-> 0, pitchClass |-> 0]

NoHop == [valid |-> FALSE, rms |-> 0, minRms |-> 0, smoothing |-> 0,
          prevPcd |-> ZeroVec, emitted |-> FALSE, threw |-> FALSE,
          tuner |-> DEFAULT_TUNER_CONFIG, candidate |-> NoCandidate,
          primary |-> NoCandidate, result |-> NoPrimary, refA4 |-> 0,
          halfSize |-> 0, sampleRate |-> 0,
          frame |-> <<>>, newest |-> 0,
          windowSize |-> 0, pcd |-> NoObject]

(* What a statechange listener sees of the processor when it is called. *)
Resources ==
  {"audioContext", "micStream", "mediaStreamSource", "workletNode", "silentGain"}

Held(a) == {r \in Resources : a[r] # Null}

Zeroed(a) ==
  /\ a.writeIndex = 0
  /\ a.filled = 0
  /\ a.hopCounter = 0
  /\ IsZeroVec(a.currentPcd)
  /\ IsZeroVec(a.rawPcd)
  /\ a.lastRms = 0

NoEvent == [valid |-> FALSE, running |-> FALSE, held |-> {}, zeroed |-> TRUE]

(* What is remembered of the last hannWindow call: the size asked for,     *)
(* the object returned, the object the previous call for that size         *)
(* returned since the cache was last cleared (NoObject if there was none), *)
(* whether the returned object had ever been returned before, and the      *)
(* number of tables computed before and after the call.                    *)
NoWindowCall ==
  [valid |-> FALSE, size |-> 0, result |-> NoObject, threw |-> FALSE,
   previous |-> NoObject, seenBefore |-> FALSE, before |-> 0, after |-> 0,
   cleared |-> FALSE]

LogHannWindow(lg, wc0, wc1, size) ==
  [lg EXCEPT
     !.lastWindow = [valid |-> TRUE, size |-> size, result |-> wc1.result,
                     threw |-> wc1.threw,
                     previous |-> IF size \in DOMAIN lg.returned
                                  THEN lg.returned[size] ELSE NoObject,
                     seenBefore |-> wc1.result \in lg.everReturned,
                     before |-> wc0.allocated, after |-> wc1.allocated,
                     cleared |-> lg.nClears > 0],
     !.returned = IF wc1.threw THEN @
                  ELSE [s \in DOMAIN @ \cup {size} |->
                          IF s = size THEN wc1.result ELSE @[s]],
     !.everReturned = IF wc1.threw THEN @ ELSE @ \cup {wc1.result}]

(* What is remembered of the last direct call of compute: its key, the key *)
(* of the call before it (if any), the PCD it returned, and the PCD the    *)
(* same call returns with a table built for it on the spot.                *)
NoKey == [length |-> 0, sampleRate |-> 0, a4 |-> 0]

NoCompute ==
  [valid |-> FALSE, key |-> NoKey, hadPrevious |-> FALSE, previous |-> NoKey,
   out |-> ZeroVec, rebuiltOut |-> ZeroVec,
   magnitudes |-> <<>>, options |-> DEFAULT_AUDIO_CONFIG]

(* What is remembered of the last direct call of estimatePrimary: its      *)
(* arguments, what it returned and the bins of `magnitudes` it read.       *)
NoEstimate ==
  [valid |-> FALSE, magnitudes |-> <<>>, halfSize |-> 0, sampleRate |-> 0,
   minHz |-> 0, maxHz |-> 0, est |-> NoCandidate, reads |-> {}]

(* What is remembered of the last direct call of transform: the length of  *)
(* the frame, the engine size before the call, and the number of bins of   *)
(* the spectrum it returned.                                               *)
NoTransform == [valid |-> FALSE, frameLength |-> 0, sizeBefore |-> 0, bins |-> 0]

InitLog ==
  [stateEvents |-> <<>>, cur |-> 0,
   nStarts |-> 0, nStops |-> 0, nChunks |-> 0, nUpdates |-> 0, nReinits |-> 0,
   nTunerUpdates |-> 0,
   lastUpdate |-> [valid |-> FALSE, before |-> DEFAULT_AUDIO_CONFIG, updates |-> <<>>,
                   after |-> DEFAULT_AUDIO_CONFIG,
                   buffersBefore |-> <<>>, buffersAfter |-> <<>>],
   samples |-> 0, events |-> 0, failures |-> 0, energetic |-> FALSE,
   steady |-> TRUE, resetBy |-> "constructor", lastHop |-> NoHop,
   atStateChange |-> NoEvent, inFrame |-> FALSE, wroteOutside |-> FALSE,
   keepFrames |-> FALSE, frames |-> <<>>, perSample |-> <<>>,
   hopWhileIdle |-> FALSE, eventWhileIdle |-> FALSE,
   windowCurrentPCD |-> NoObject,
   nWindowCalls |-> 0, nClears |-> 0,
   returned |-> EmptyCache, everReturned |-> {},
   lastWindow |-> NoWindowCall,
   nComputes |-> 0, lastCompute |-> NoCompute,
   nTransforms |-> 0, lastTransform |-> NoTransform,
   nEstimates |-> 0, lastEstimate |-> NoEstimate,
   frameHops |-> 0, frameEvents |-> 0, frameErrors |-> 0, frameThrows |-> 0]

InitProcessor ==
  /\ ap \in {Construct(c) : c \in limits.configs}
  /\ mediaDevices \in BOOLEAN
  /\ ctxState = [i \in CtxIds |-> "none"]
  /\ trackState = [i \in CallIds |-> "none"]
  /\ nodeCtx = [i \in CallIds |-> Null]
  /\ onmessage = {}
  /\ calls = [i \in CallIds |-> IdleCall]
  /\ windowing = HannWindow(ModuleLoaded, ap.config.windowSize)
  /\ log = LogHannWindow([InitLog EXCEPT !.windowCurrentPCD = GetCurrentPcd(ap)],
                         ModuleLoaded, windowing, ap.config.windowSize)
  /\ last = NoOp

(***************************************************************************)
(* setRunning, dispatchError, resetBuffers                                 *)
(***************************************************************************)
CountFor(w, field) ==
  IF w.log.cur = 0 THEN w.calls
  ELSE [w.calls EXCEPT ![w.log.cur][field] = @ + 1]

SetRunningUnguarded(w, value) ==
  [w EXCEPT !.ap.running = value,
            !.log.stateEvents = Append(@, value),
            !.log.atStateChange = [valid |-> TRUE, running |-> value,
                                   held |-> Held(w.ap), zeroed |-> Zeroed(w.ap)],
            !.calls = CountFor(w, "stch")]

SetRunning(w, value) ==
  IF w.ap.running = value THEN w
  ELSE [w EXCEPT !.ap.running = value,
                 !.log.stateEvents = Append(@, value),
                 !.log.atStateChange = [valid |-> TRUE, running |-> value,
                                        held |-> Held(w.ap), zeroed |-> Zeroed(w.ap)],
                 !.calls = CountFor(w, "stch")]

DispatchError(w) ==
  [w EXCEPT !.log.frameErrors = @ + 1, !.calls = CountFor(w, "errs")]

ResetBuffersKeepingPcd(w) ==
  [w EXCEPT !.ap.writeIndex = 0, !.ap.filled = 0, !.ap.hopCounter = 0,
            !.ap.ringBuffer = Zeros(Len(@)),
            !.ap.lastRms = 0,
            !.log.samples = 0, !.log.events = 0, !.log.failures = 0,
            !.log.energetic = FALSE, !.log.steady = TRUE,
            !.log.resetBy = "lifecycle",
            !.log.lastHop = NoHop]

(* resetBuffers() with `this.currentPcd = new Float32Array(12)` in place of *)
(* `this.currentPcd.fill(0)`.                                               *)
ResetBuffersReplacingPcd(w) ==
  [w EXCEPT !.ap.writeIndex = 0, !.ap.filled = 0, !.ap.hopCounter = 0,
            !.ap.ringBuffer = Zeros(Len(@)),
            !.ap.currentPcd = ZeroVec, !.ap.rawPcd = ZeroVec,
            !.ap.currentPcdObject = NewObject("resetBuffers", @.serial + 1),
            !.ap.lastRms = 0,
            !.log.samples = 0, !.log.events = 0, !.log.failures = 0,
            !.log.energetic = FALSE, !.log.steady = TRUE,
            !.log.resetBy = "lifecycle",
            !.log.lastHop = NoHop]

ResetBuffers(w) ==
  [w EXCEPT !.ap.writeIndex = 0, !.ap.filled = 0, !.ap.hopCounter = 0,
            !.ap.ringBuffer = Zeros(Len(@)),
            !.ap.currentPcd = ZeroVec, !.ap.rawPcd = ZeroVec,
            !.ap.lastRms = 0,
            !.log.samples = 0, !.log.events = 0, !.log.failures = 0,
            !.log.energetic = FALSE, !.log.steady = TRUE,
            !.log.resetBy = "lifecycle",
            !.log.lastHop = NoHop]

(***************************************************************************)
(* stop(), up to its await of audioContext.close().  The result names the  *)
(* context whose close is awaited (Null when stop ran to its end).         *)
(***************************************************************************)
StopRelease(w) ==
  LET a == w.ap
      w1 == IF a.workletNode # Null
            THEN [w EXCEPT !.onmessage = @ \ {a.workletNode},
                           !.ap.workletNode = Null]
            ELSE w
      w2 == [w1 EXCEPT !.ap.silentGain = Null, !.ap.mediaStreamSource = Null]
  IN  IF a.micStream # Null
      THEN [w2 EXCEPT !.trackState[a.micStream] = "stopped",
                      !.ap.micStream = Null]
      ELSE w2

StopSync(w) ==
  IF ~w.ap.running /\ w.ap.audioContext = Null /\ w.ap.micStream = Null
  THEN [w |-> w, awaits |-> Null, ran |-> FALSE]
  ELSE LET w1 == StopRelease(SetRunning(w, FALSE))
           ctx == w1.ap.audioContext
       IN  IF ctx # Null
           THEN [w |-> [w1 EXCEPT !.ctxState[ctx] =
                                     IF @ = "open" THEN "closing" ELSE @],
                 awaits |-> ctx, ran |-> TRUE]
           ELSE [w |-> ResetBuffers(w1), awaits |-> Null, ran |-> TRUE]

(* stop(), after the await: the context reference is dropped, buffers reset. *)
StopResume(w, c) ==
  ResetBuffers([w EXCEPT !.ctxState[w.calls[c].ctx] = "closed",
                         !.ap.audioContext = Null])

(***************************************************************************)
(* A call settles: its promise resolves or rejects.  The slot is freed and *)
(* what the call did is kept in last.                                      *)
(***************************************************************************)
Settle(w, c, op, outcome) ==
  [w EXCEPT !.calls[c] = IdleCall,
            !.last = [op |-> op, call |-> c, outcome |-> outcome,
                      errs |-> w.calls[c].errs, stch |-> w.calls[c].stch,
                      hops |-> 0, events |-> 0, threw |-> 0,
                      reinit |-> FALSE, stopped |-> FALSE]]

Suspend(w, c, op, pc, ctx) ==
  [w EXCEPT !.calls[c].pc = pc, !.calls[c].ctx = ctx,
            !.last = [op |-> op, call |-> c, outcome |-> "pending",
                      errs |-> w.calls[c].errs, stch |-> w.calls[c].stch,
                      hops |-> 0, events |-> 0, threw |-> 0,
                      reinit |-> FALSE, stopped |-> FALSE]]

(* start()'s catch block: await this.stop(); this.dispatchError(error); throw *)
StartCatch(w, c, op) ==
  LET r == StopSync(w)
  IN  IF r.awaits # Null
      THEN Suspend(r.w, c, op, "catchClose", r.awaits)
      ELSE Settle(DispatchError(r.w), c, op, "rejected")

(***************************************************************************)
(* start(): the synchronous part up to the await of addModule.             *)
(* ctor = FALSE: the AudioContext constructor throws.                      *)
(***************************************************************************)
FreshCtx(w) == 1 + Cardinality({i \in CtxIds : w.ctxState[i] # "none"})

StartSync(w, c, ctor) ==
  IF w.ap.running THEN Settle(w, c, "start", "returned")
  ELSE IF ~w.mediaDevices
  THEN Settle(DispatchError(w), c, "start", "rejected")
  ELSE IF ~ctor THEN StartCatch(w, c, "start")
  ELSE LET id == FreshCtx(w)
       IN  Suspend([w EXCEPT !.ctxState[id] = "open",
                             !.ap.audioContext = id,
                             !.ap.sampleRate = DefaultSampleRate],
                   c, "start", "addModule", id)

(* start() resumes after addModule settled and calls getUserMedia. *)
StartAfterAddModule(w, c, ok) ==
  IF ok THEN Suspend(w, c, "addModule", "getUserMedia", w.calls[c].ctx)
  ELSE StartCatch(w, c, "addModule")

(***************************************************************************)
(* start() resumes after getUserMedia settled.  failAt names the statement *)
(* of the node set-up that throws ("none": none does).  With audioContext  *)
(* null, createMediaStreamSource throws a TypeError.                       *)
(***************************************************************************)
FailPoints == {"none", "source", "gain", "worklet", "connect"}

StartAfterGetUserMedia(w, c, ok, failAt) ==
  IF ~ok THEN StartCatch(w, c, "getUserMedia")
  ELSE
    LET w0 == [w EXCEPT !.trackState[c] = "live", !.ap.micStream = c]
        ctx == w0.ap.audioContext
        w1 == [w0 EXCEPT !.ap.mediaStreamSource = c]
        w2 == [w1 EXCEPT !.ap.silentGain = c]
        w3 == [w2 EXCEPT !.ap.workletNode = c, !.nodeCtx[c] = ctx]
        w4 == [w3 EXCEPT !.onmessage = @ \cup {c}]
    IN  IF ctx = Null \/ failAt = "source" THEN StartCatch(w0, c, "getUserMedia")
        ELSE IF failAt = "gain" THEN StartCatch(w1, c, "getUserMedia")
        ELSE IF failAt = "worklet" THEN StartCatch(w2, c, "getUserMedia")
        ELSE IF failAt = "connect" THEN StartCatch(w3, c, "getUserMedia")
        ELSE Settle(SetRunning(ResetBuffers(w4), TRUE), c, "getUserMedia", "resolved")

(* The awaited close() settled: stop() (or start()'s catch) runs to its end. *)
AfterClose(w, c) ==
  IF w.calls[c].kind = "stop"
  THEN Settle(StopResume(w, c), c, "close", "resolved")
  ELSE Settle(DispatchError(StopResume(w, c)), c, "close", "rejected")

(* stop() called by the application. *)
StopCall(w, c) ==
  LET r == StopSync(w)
  IN  IF r.awaits # Null THEN Suspend(r.w, c, "stop", "close", r.awaits)
      ELSE Settle(r.w, c, "stop", IF r.ran THEN "resolved" ELSE "returned")

(***************************************************************************)
(* Bookkeeping of the calls: a start() or stop() call takes the next free  *)
(* slot; log.cur names the call whose code is running.                     *)
(***************************************************************************)
NextCallOf(w) == w.log.nStarts + w.log.nStops + 1

Enter(w, c, kind) ==
  [w EXCEPT !.calls[c] = [IdleCall EXCEPT !.kind = kind, !.pc = "run"],
            !.log.cur = c,
            !.log.nStarts = IF kind = "start" THEN @ + 1 ELSE @,
            !.log.nStops = IF kind = "stop" THEN @ + 1 ELSE @]

Resume(w, c) == [w EXCEPT !.log.cur = c]

Leave(w) == [w EXCEPT !.log.cur = 0, !.log.frameErrors = 0]

(***************************************************************************)
(* updateConfig(updates).  A key of updates is present when it is in       *)
(* DOMAIN updates; `updates.windowSize &&` and `if (updates.hopSize)` also *)
(* need the value to be non-zero.                                          *)
(***************************************************************************)
Has(u, k) == k \in DOMAIN u
Truthy(u, k) == Has(u, k) /\ u[k] # 0

(* What resetBuffers clears, as the properties read it. *)
BufferState(a) ==
  [writeIndex |-> a.writeIndex, filled |-> a.filled, hopCounter |-> a.hopCounter,
   ringBuffer |-> a.ringBuffer, rawPcd |-> a.rawPcd, currentPcd |-> a.currentPcd]

(* reinitWindow set by every windowSize that differs from the current one,  *)
(* without the test of line 131.                                           *)
ReinitOnAnyWindowSize(cfg, updates) ==
  Truthy(updates, "windowSize") /\ updates.windowSize # cfg.windowSize

(* reinitWindow after lines 128-138 *)
ReinitWindow(cfg, updates) ==
  /\ Truthy(updates, "windowSize")
  /\ updates.windowSize # cfg.windowSize
  /\ ToPowerOfTwo(updates.windowSize) # cfg.windowSize

UpdateConfig(w, updates) ==
  LET cfg0 == w.ap.config
      size == IF Truthy(updates, "windowSize") /\ updates.windowSize # cfg0.windowSize
              THEN ToPowerOfTwo(updates.windowSize) ELSE cfg0.windowSize
      reinitWindow == ReinitWindow(cfg0, updates)
      hop1 == IF Truthy(updates, "hopSize") THEN Max(1, updates.hopSize)
              ELSE cfg0.hopSize
      minHz == IF Has(updates, "minHz") THEN Max(0, updates.minHz) ELSE cfg0.minHz
      maxHz1 == IF Has(updates, "maxHz") THEN Max(minHz + 1, updates.maxHz)
                ELSE cfg0.maxHz
      maxHz == IF maxHz1 <= minHz THEN minHz + 1 ELSE maxHz1
      cfg == [windowSize |-> size,
              hopSize |-> Min(hop1, size),
              minHz |-> minHz,
              maxHz |-> maxHz,
              smoothing |-> IF Has(updates, "smoothing")
                            THEN Clamp(updates.smoothing, 0, MaxSmoothing)
                            ELSE cfg0.smoothing,
              pcdMinRms |-> IF Has(updates, "pcdMinRms")
                            THEN Max(0, updates.pcdMinRms) ELSE cfg0.pcdMinRms,
              pcdThreshold |-> IF Has(updates, "pcdThreshold")
                               THEN Max(0, updates.pcdThreshold)
                               ELSE cfg0.pcdThreshold,
              pcdNormalize |-> IF Has(updates, "pcdNormalize")
                               THEN Max(MinPcdNormalize, updates.pcdNormalize)
                               ELSE cfg0.pcdNormalize,
              refA4 |-> IF Has(updates, "refA4") THEN Max(1, updates.refA4)
                        ELSE cfg0.refA4]
      wc == HannWindow(w.windowing, size)
      w1 == IF reinitWindow
            THEN ResetBuffers([w EXCEPT !.windowing = wc,
                                        !.log = LogHannWindow(@, w.windowing, wc, size),
                                        !.ap.windowFn = wc.result,
                                        !.ap.windowLen = size,
                                        !.ap.ringLen = size,
                                        !.ap.ringBuffer = Zeros(size),
                                        !.ap.analysisLen = size])
            ELSE w
  IN  [w1 EXCEPT !.ap.config = cfg,
                 !.log.steady = IF reinitWindow THEN ~w.log.inFrame
                                ELSE @ /\ cfg.hopSize = cfg0.hopSize,
                 !.log.resetBy = IF reinitWindow THEN "updateConfig" ELSE @,
                 !.log.nReinits = IF reinitWindow THEN @ + 1 ELSE @,
                 !.log.lastUpdate = [valid |-> TRUE, before |-> cfg0,
                                     updates |-> updates, after |-> cfg,
                                     buffersBefore |-> BufferState(w.ap),
                                     buffersAfter |-> BufferState(w1.ap)],
                 !.last = [NoOp EXCEPT !.op = "updateConfig",
                                       !.reinit = reinitWindow]]

(* updateTuner(updates): Object.assign(this.tunerConfig, updates) *)
UpdateTuner(w, updates) ==
  [w EXCEPT !.ap.tunerConfig = MergeConfig(@, updates),
            !.last = [NoOp EXCEPT !.op = "updateTuner"]]

(***************************************************************************)
(* What the microphone hears during a chunk: the RMS of a windowed frame   *)
(* and the tones in it.  RealFFT.transform is not computed from samples:   *)
(* the spectrum it returns has size/2 bins, size the smallest power of two *)
(* >= the frame length, and holds each tone in the bin of its frequency.   *)
(***************************************************************************)
RECURSIVE FftSizeFrom(_, _)
FftSizeFrom(size, length) ==
  IF size < length THEN FftSizeFrom(2 * size, length) ELSE size

FftSize(length) == FftSizeFrom(1, length)

BinOf(hz, length, sampleRate) == (hz * 2 * length) \div sampleRate

RECURSIVE SumMags(_, _, _, _)
SumMags(tones, k, length, sampleRate) ==
  IF tones = {} THEN 0
  ELSE LET t == CHOOSE x \in tones : TRUE
       IN  (IF BinOf(t.hz, length, sampleRate) = k THEN t.mag ELSE 0)
           + SumMags(tones \ {t}, k, length, sampleRate)

Transform(signal, frameLength, sampleRate) ==
  LET length == FftSize(frameLength) \div 2
  IN  [k \in 0 .. (length - 1) |-> SumMags(signal.tones, k, length, sampleRate)]

(***************************************************************************)
(* PitchClassComputer.  Math.round(69 + 12 * (log2(freq) - log2(a4))) is   *)
(* tabulated for a4 = 440 and the frequencies 750, 1500, ..., 24000 Hz     *)
(* that the bins of the modelled window lengths have at 48000 Hz; an a4 of *)
(* 220 or 880 moves it by exactly one octave (901120 = 440 * 2^11 by       *)
(* eleven), an a4 of 415 by one semitone at each of these frequencies.     *)
(***************************************************************************)
MidiStepHz == 750

MidiTable440 ==
  <<78, 90, 97, 102, 106, 109, 112, 114, 116, 118, 120, 121, 123, 124, 125,
    126, 127, 128, 129, 130, 131, 132, 133, 133, 134, 135, 135, 136, 137,
    137, 138, 138>>

OctaveShift(a4) ==
  CASE a4 = 440 -> 0
    [] a4 = 220 -> 12
    [] a4 = 880 -> -12
    [] a4 = 415 -> 1
    [] a4 = 901120 -> -132

RoundedMidi(k, length, sampleRate, a4) ==
  MidiTable440[(k * sampleRate) \div (2 * length * MidiStepHz)] + OctaveShift(a4)

JsRem(a, n) == IF a >= 0 THEN a % n ELSE -((-a) % n)

BuildLookup(length, sampleRate, a4) ==
  [k \in 0 .. (length - 1) |->
     IF k > 0
     THEN (JsRem(RoundedMidi(k, length, sampleRate, a4), NumClasses) + NumClasses)
            % NumClasses
     ELSE 0]

(* ensureLookup without the test of prevA4 (line 113).                     *)
EnsureLookupIgnoringA4(pcc, length, sampleRate, a4) ==
  IF /\ pcc.hasLookup
     /\ pcc.prevSampleRate = sampleRate
     /\ pcc.prevLength = length
  THEN [pcc EXCEPT !.rebuilt = FALSE]
  ELSE [lookupTable |-> BuildLookup(length, sampleRate, a4), hasLookup |-> TRUE,
        rebuilt |-> TRUE,
        prevSampleRate |-> sampleRate, prevA4 |-> a4, prevLength |-> length]

(* ensureLookup(length, sampleRate, a4); `rebuilt` tells whether the call  *)
(* returned early (lines 110-117) or made a new table (119-135).           *)
EnsureLookup(pcc, length, sampleRate, a4) ==
  IF /\ pcc.hasLookup
     /\ pcc.prevSampleRate = sampleRate
     /\ pcc.prevA4 = a4
     /\ pcc.prevLength = length
  THEN [pcc EXCEPT !.rebuilt = FALSE]
  ELSE [lookupTable |-> BuildLookup(length, sampleRate, a4), hasLookup |-> TRUE,
        rebuilt |-> TRUE,
        prevSampleRate |-> sampleRate, prevA4 |-> a4, prevLength |-> length]

(* Math.pow(x, pcdNormalize) for the exponents 1.0 and 2.0 (in tenths). *)
PowTenths(x, p) ==
  CASE p = 10 -> x
    [] p = 20 -> x * x

RECURSIVE Accumulate(_, _, _, _, _, _)
Accumulate(acc, k, maxBin, magnitudes, threshold, table) ==
  IF k > maxBin THEN acc
  ELSE Accumulate(
         IF magnitudes[k] > threshold
         THEN [acc EXCEPT ![table[k]] = @ + magnitudes[k] * magnitudes[k]]
         ELSE acc,
         k + 1, maxBin, magnitudes, threshold, table)

(* compute with `Math.max(0, ...)` for minBin in place of `Math.max(1, ...)` *)
(* (line 157).                                                               *)
ComputeWithBinZero(table, magnitudes, length, sampleRate, options) ==
  LET minBin == Max(0, (options.minHz * 2 * length) \div sampleRate)
      maxBin == Min(length - 1, (options.maxHz * 2 * length) \div sampleRate)
      acc == Accumulate([i \in Classes |-> 0], minBin, maxBin, magnitudes,
                        options.pcdThreshold, table)
      out == IF options.pcdNormalize # 10
             THEN [i \in Classes |-> PowTenths(acc[i], options.pcdNormalize)]
             ELSE acc
      sum == SumFrom(out, 0)
  IN  IF sum > 0 THEN Reduce([n |-> out, d |-> sum]) ELSE ZeroVec

(* compute(magnitudes, sampleRate, options), with the lookup table in use *)
ComputeWith(table, magnitudes, length, sampleRate, options) ==
  LET minBin == Max(1, (options.minHz * 2 * length) \div sampleRate)
      maxBin == Min(length - 1, (options.maxHz * 2 * length) \div sampleRate)
      acc == Accumulate([i \in Classes |-> 0], minBin, maxBin, magnitudes,
                        options.pcdThreshold, table)
      out == IF options.pcdNormalize # 10
             THEN [i \in Classes |-> PowTenths(acc[i], options.pcdNormalize)]
             ELSE acc
      sum == SumFrom(out, 0)
  IN  IF sum > 0 THEN Reduce([n |-> out, d |-> sum]) ELSE ZeroVec

Compute(pcc, magnitudes, length, sampleRate, options) ==
  ComputeWith(EnsureLookup(pcc, length, sampleRate, options.refA4).lookupTable,
              magnitudes, length, sampleRate, options)

GetSilentOutput == ZeroVec

(***************************************************************************)
(* The smoothing loop of processFrame:                                     *)
(*   currentPcd[i] = smoothing * currentPcd[i] + beta * rawPcd[i]          *)
(* with smoothing = sn / sd in lowest terms.                               *)
(***************************************************************************)
SmoothHoldingOnSilence(current, raw, smoothingMille) ==
  IF IsZeroVec(raw) THEN current
  ELSE Reduce([n |-> [i \in Classes |->
                        smoothingMille * current.n[i] * raw.d
                          + (1000 - smoothingMille) * raw.n[i] * current.d],
               d |-> 1000 * current.d * raw.d])

Smooth(current, raw, smoothingMille) ==
  LET s == Clamp(smoothingMille, 0, MaxSmoothing)
      g == Gcd(1000, s)
      sn == s \div g
      sd == 1000 \div g
  IN  Reduce([n |-> [i \in Classes |->
                       sn * current.n[i] * raw.d + (sd - sn) * raw.n[i] * current.d],
              d |-> sd * current.d * raw.d])

(***************************************************************************)
(* estimatePrimary(magnitudes, sampleRate, minHz, maxHz): the strongest    *)
(* bin k of the range, null when its magnitude is below the floor, and the *)
(* sum and count of the neighbours (every second bin of k - 10 .. k + 10   *)
(* within the range, k left out) from which prominenceDb is taken.         *)
(***************************************************************************)
(* The peak loop with `value >= maxVal` in place of `value > maxVal`. *)
RECURSIVE PeakFromLast(_, _, _, _, _)
PeakFromLast(magnitudes, i, kMax, maxVal, k) ==
  IF i > kMax THEN [k |-> k, maxVal |-> maxVal]
  ELSE IF magnitudes[i] >= maxVal
       THEN PeakFromLast(magnitudes, i + 1, kMax, magnitudes[i], i)
       ELSE PeakFromLast(magnitudes, i + 1, kMax, maxVal, k)

(* The parabolic interpolation of lines 46-51, as an exact fraction n / d   *)
(* (d > 0): delta = 0.5 * (a - c) / ((a - 2b + c) || 1e-12), clamped to     *)
(* [-1, 1].  With the 1e-12 denominator any a # c is clamped.               *)
Interpolate(a, b, c) ==
  LET denom == a - 2 * b + c
      n == IF denom > 0 THEN a - c ELSE c - a
      d == IF denom > 0 THEN 2 * denom ELSE -2 * denom
  IN  IF denom = 0
      THEN (IF a = c THEN [n |-> 0, d |-> 1]
            ELSE IF a > c THEN [n |-> 1, d |-> 1] ELSE [n |-> -1, d |-> 1])
      ELSE IF n > d THEN [n |-> 1, d |-> 1]
      ELSE IF n < -d THEN [n |-> -1, d |-> 1]
      ELSE [n |-> n, d |-> d]

(* avgNeighbor = count > 0 ? sum / count : 0;                              *)
(* prominenceDb = avgNeighbor > 0 ? 20 * Math.log10(...) : 0               *)
ProminenceDb(maxVal, sum, count) ==
  IF count > 0 /\ sum > 0 THEN LogRatioDb(maxVal, sum, count) ELSE ZeroDb

RECURSIVE PeakFrom(_, _, _, _, _)
PeakFrom(magnitudes, i, kMax, maxVal, k) ==
  IF i > kMax THEN [k |-> k, maxVal |-> maxVal]
  ELSE IF magnitudes[i] > maxVal
       THEN PeakFrom(magnitudes, i + 1, kMax, magnitudes[i], i)
       ELSE PeakFrom(magnitudes, i + 1, kMax, maxVal, k)

RECURSIVE NeighborsFrom(_, _, _, _, _, _)
NeighborsFrom(magnitudes, i, to, k, sum, count) ==
  IF i > to THEN [sum |-> sum, count |-> count]
  ELSE IF i # k
       THEN NeighborsFrom(magnitudes, i + 2, to, k, sum + magnitudes[i], count + 1)
       ELSE NeighborsFrom(magnitudes, i + 2, to, k, sum, count)

EstimatePrimary(magnitudes, halfSize, sampleRate, minHz, maxHz) ==
  LET kMin == Max(2, (minHz * 2 * halfSize) \div sampleRate)
      kMax == Min(halfSize - 3, (maxHz * 2 * halfSize) \div sampleRate)
      peak == PeakFrom(magnitudes, kMin, kMax, 0, kMin)
      from == Max(kMin, peak.k - Neighborhood)
      to == Min(kMax, peak.k + Neighborhood)
      nb == NeighborsFrom(magnitudes, from, to, peak.k, 0, 0)
  IN  IF peak.maxVal < MinMagnitude THEN NoCandidate
      ELSE [found |-> TRUE, k |-> peak.k, maxVal |-> peak.maxVal,
            sum |-> nb.sum, count |-> nb.count,
            prominenceDb |-> ProminenceDb(peak.maxVal, nb.sum, nb.count),
            kRef |-> LET delta == Interpolate(magnitudes[peak.k - 1],
                                              magnitudes[peak.k],
                                              magnitudes[peak.k + 1])
                     IN  [n |-> peak.k * delta.d + delta.n, d |-> delta.d],
            freq |-> LET delta == Interpolate(magnitudes[peak.k - 1],
                                              magnitudes[peak.k],
                                              magnitudes[peak.k + 1])
                     IN  [n |-> (peak.k * delta.d + delta.n) * sampleRate,
                          d |-> delta.d * 2 * halfSize]]

(* The indices at which estimatePrimary reads `magnitudes`: the peak loop   *)
(* (line 18), and after the floor test the neighbour loop (34) and the     *)
(* three bins of the interpolation (46-48).                                *)
EstimateReads(magnitudes, halfSize, sampleRate, minHz, maxHz) ==
  LET kMin == Max(2, (minHz * 2 * halfSize) \div sampleRate)
      kMax == Min(halfSize - 3, (maxHz * 2 * halfSize) \div sampleRate)
      peak == PeakFrom(magnitudes, kMin, kMax, 0, kMin)
      from == Max(kMin, peak.k - Neighborhood)
      to == Min(kMax, peak.k + Neighborhood)
  IN  (kMin .. kMax)
        \cup IF peak.maxVal < MinMagnitude THEN {}
             ELSE {i \in from .. to : (i - from) % 2 = 0 /\ i # peak.k}
                    \cup {peak.k - 1, peak.k, peak.k + 1}

(***************************************************************************)
(* est.prominenceDb >= minProminence.  prominenceDb is                     *)
(* 20 * log10((maxVal + 1e-12) / (avgNeighbor + 1e-12)), or 0 when the     *)
(* neighbours average 0.  10^(dB / 20) is tabulated in thousandths for the *)
(* thresholds the model uses; the 1e-12 makes a ratio that meets a         *)
(* threshold above 1 exactly fall short of it.                             *)
(***************************************************************************)
RatioMille(tenthsDb) ==
  CASE tenthsDb = 0 -> 1000
    [] tenthsDb = 60 -> 1995
    [] tenthsDb = 200 -> 10000

ProminenceAtLeast(est, minProminence) ==
  IF est.sum = 0 THEN 0 >= minProminence
  ELSE IF minProminence <= 0 THEN TRUE
  ELSE est.maxVal * est.count * 1000 > RatioMille(minProminence) * est.sum

PrimaryWithoutProminenceGate(tuner, rms, magnitudes, halfSize, sampleRate) ==
  LET est == EstimatePrimary(magnitudes, halfSize, sampleRate, tuner.minHz, tuner.maxHz)
  IN  IF tuner.enabled /\ rms >= tuner.minRMS THEN est ELSE NoCandidate

(***************************************************************************)
(* The conversion of lines 311-323.  Math.round(69 + 12 * log2(f / 440)) is *)
(* n exactly when f lies between the frequencies of n - 0.5 and n + 0.5;    *)
(* these are tabulated in tenths of a hertz for n = 89 .. 140.  A refA4 of  *)
(* 440 * 2^m lowers every note number by exactly 12 * m.  cents is          *)
(* (midiReal - nearest) * 100 of the same midiReal, so it is determined by  *)
(* freq, refA4 and nearestMidi.                                            *)
(***************************************************************************)
QuarterToneTenths ==
  <<13571, 14378, 15233, 16139, 17099, 18116, 19193, 20334, 21543, 22824,
    24182, 25619, 27143, 28757, 30467, 32279, 34198, 36231, 38386, 40668,
    43087, 45649, 48363, 51239, 54286, 57514, 60934, 64557, 68396, 72463,
    76772, 81337, 86173, 91298, 96726, 102478, 108572, 115028, 121868, 129114,
    136792, 144926, 153543, 162674, 172347, 182595, 193453, 204956, 217143,
    230055, 243735, 258228>>

(* The frequency of note number n - 0.5 at refA4 = 440, in tenths of Hz. *)
LowerEdgeTenths(n) == QuarterToneTenths[n - 88]

RECURSIVE RoundedFrom(_, _)
RoundedFrom(n, freq) ==
  IF n + 1 - 88 <= Len(QuarterToneTenths)
       /\ 10 * freq.n >= LowerEdgeTenths(n + 1) * freq.d
  THEN RoundedFrom(n + 1, freq)
  ELSE n

OctavesAbove440(a4) ==
  CASE a4 = 440 -> 0
    [] a4 = 880 -> 1
    [] a4 = 901120 -> 11

(* Math.round(69 + 12 * Math.log2(freq / refA4)) *)
NearestMidi(freq, a4) == RoundedFrom(89, freq) - 12 * OctavesAbove440(a4)

(* nearest % 12, without the wrap into 0..11 *)
PitchClassUnwrapped(nearest) == JsRem(nearest, NumClasses)

(* ((nearest % 12) + 12) % 12 *)
PitchClassOf(nearest) == (JsRem(nearest, NumClasses) + NumClasses) % NumClasses

(* primary = { freq, prominenceDb, cents, pitchClass, nearestMidi, midi } *)
PrimaryResult(est, a4) ==
  IF ~est.found THEN NoPrimary
  ELSE [found |-> TRUE, freq |-> est.freq, prominenceDb |-> est.prominenceDb,
        nearestMidi |-> NearestMidi(est.freq, a4),
        pitchClass |-> PitchClassOf(NearestMidi(est.freq, a4))]

(* The primary-pitch part of processFrame: null unless every gate passes. *)
PrimaryOf(tuner, rms, magnitudes, halfSize, sampleRate) ==
  LET est == EstimatePrimary(magnitudes, halfSize, sampleRate, tuner.minHz, tuner.maxHz)
  IN  IF tuner.enabled /\ rms >= tuner.minRMS
      THEN IF est.found /\ ProminenceAtLeast(est, tuner.minProminence)
           THEN est ELSE NoCandidate
      ELSE NoCandidate

(***************************************************************************)
(* What an `analysis` listener does while the event is dispatched: nothing, *)
(* a call of updateConfig, or a call of stop().                            *)
(***************************************************************************)
ListenerStop(w) ==
  [StopCall(Enter(w, NextCallOf(w), "stop"), NextCallOf(w)) EXCEPT !.log.cur = 0]

React(w, kind, updates) ==
  CASE kind = "none" -> w
    [] kind = "updateConfig" -> UpdateConfig(w, updates)
    [] kind = "stop" -> ListenerStop(w)

(***************************************************************************)
(* processFrame().  inp.signal is what the frame holds, inp.failHop the    *)
(* hop of the chunk (counted from 1) whose transform throws, inp.reactHop  *)
(* the hop at whose event the listener reacts.                             *)
(***************************************************************************)
(* The analysis frame before windowing: ringBuffer.subarray(start) followed *)
(* by ringBuffer.subarray(0, start).                                       *)
Linearize(ring, start) ==
  [i \in 1 .. Len(ring) |->
     IF i <= Len(ring) - start THEN ring[start + i] ELSE ring[i - (Len(ring) - start)]]

HopFailedStopsStream(w) == SetRunning(DispatchError(w), FALSE)

HopFailed(w) == DispatchError(w)

(* The try block of processFrame (lines 275-339). *)
AnalyseFrame(w, inp) ==
    LET a == w.ap
        hop == w.log.frameHops + 1
        rms == inp.signal.rms
        length == FftSize(a.analysisLen) \div 2
        magnitudes == Transform(inp.signal, a.analysisLen, a.sampleRate)
        gated == ~(rms >= a.config.pcdMinRms)
        pcc == IF gated THEN a.pcdComputer
               ELSE EnsureLookup(a.pcdComputer, length, a.sampleRate, a.config.refA4)
        rawPcd == IF gated THEN GetSilentOutput
                  ELSE ComputeWith(pcc.lookupTable, magnitudes, length, a.sampleRate,
                                   a.config)
        currentPcd == Smooth(a.currentPcd, rawPcd, a.config.smoothing)
        primary == PrimaryOf(a.tunerConfig, rms, magnitudes, length, a.sampleRate)
        thisHop == [valid |-> TRUE, rms |-> rms, minRms |-> a.config.pcdMinRms,
                    smoothing |-> a.config.smoothing, prevPcd |-> a.currentPcd,
                    emitted |-> FALSE, threw |-> FALSE,
                    tuner |-> a.tunerConfig,
                    candidate |-> EstimatePrimary(magnitudes, length, a.sampleRate,
                                                  a.tunerConfig.minHz,
                                                  a.tunerConfig.maxHz),
                    primary |-> NoCandidate, result |-> NoPrimary,
                    refA4 |-> a.config.refA4,
                    halfSize |-> length, sampleRate |-> a.sampleRate,
                    frame |-> Linearize(a.ringBuffer,
                                        a.writeIndex % a.config.windowSize),
                    newest |-> w.log.samples,
                    windowSize |-> a.config.windowSize,
                    pcd |-> a.currentPcdObject]
    IN  IF inp.failHop = hop
        THEN HopFailed([w EXCEPT !.ap.lastRms = rms,
                                 !.log.frameHops = hop,
                                 !.log.failures = @ + 1,
                                 !.log.frameThrows = @ + 1,
                                 !.log.lastHop = [thisHop EXCEPT !.threw = TRUE]])
        ELSE LET w1 == [w EXCEPT !.ap.lastRms = rms,
                                 !.ap.fft = EnsureSize(@, FftSize(a.analysisLen)),
                                 !.ap.pcdComputer = pcc,
                                 !.ap.rawPcd = rawPcd,
                                 !.ap.currentPcd = currentPcd,
                                 !.log.frameHops = hop,
                                 !.log.frameEvents = @ + 1,
                                 !.log.events = @ + 1,
                                 !.log.energetic = @ \/ ~IsZeroVec(rawPcd),
                                 !.log.eventWhileIdle = @ \/ ~a.running,
                                 !.log.frames = IF w.log.keepFrames
                                                THEN Append(@, thisHop.frame)
                                                ELSE @,
                                 !.log.lastHop =
                                    [thisHop EXCEPT
                                       !.emitted = TRUE,
                                       !.primary = primary,
                                       !.result = PrimaryResult(primary,
                                                                a.config.refA4)]]
             IN  IF inp.reactHop = hop THEN React(w1, inp.kind, inp.updates)
                 ELSE w1

(* processFrame without the test of line 274. *)
ProcessFrameWhileIdle(w, inp) == AnalyseFrame(w, inp)

ProcessFrame(w, inp) ==
  IF ~w.ap.running THEN [w EXCEPT !.log.hopWhileIdle = TRUE]
  ELSE AnalyseFrame(w, inp)

(***************************************************************************)
(* handleAudioFrame(event): the loop over the samples of the chunk, with   *)
(* windowSize read once before it.  The iterations up to the next hop      *)
(* boundary are taken together: SamplesToHop is the number of iterations   *)
(* after which `hopCounter >= hopSize && filled >= windowSize` first       *)
(* holds, WriteSamples what that many iterations do to the counters.       *)
(***************************************************************************)
SamplesToHopIgnoringFill(a, windowSize) ==
  Max(1, a.config.hopSize - a.hopCounter)

SamplesToHop(a, windowSize) ==
  Max(1, Max(a.config.hopSize - a.hopCounter, windowSize - a.filled))

WrittenAt(a, windowSize, j) ==
  IF j = 0 THEN a.writeIndex
  ELSE IF a.writeIndex + 1 >= windowSize THEN (j - 1) % windowSize
  ELSE (a.writeIndex + j) % windowSize

WriteSamples(w, windowSize, n) ==
  LET a == w.ap
      latest(p) == LET js == {j \in 0 .. (n - 1) : WrittenAt(a, windowSize, j) = p}
                 IN  IF js = {} THEN -1 ELSE CHOOSE j \in js : \A o \in js : o <= j
  IN  [w EXCEPT !.ap.ringBuffer =
                  [i \in 1 .. Len(@) |->
                     IF latest(i - 1) < 0 THEN @[i]
                     ELSE w.log.samples + latest(i - 1) + 1],
                !.ap.writeIndex = IF a.writeIndex + 1 >= windowSize
                                  THEN (n - 1) % windowSize
                                  ELSE (a.writeIndex + n) % windowSize,
                !.ap.filled = IF a.filled < windowSize
                              THEN Min(windowSize, a.filled + n) ELSE a.filled,
                !.ap.hopCounter = a.hopCounter + n,
                !.log.wroteOutside =
                  @ \/ \E j \in 0 .. (n - 1) :
                         WrittenAt(a, windowSize, j) >= Len(a.ringBuffer),
                !.log.samples = @ + n]

(* The loop with the hop test made once, after the last sample of the      *)
(* chunk, instead of after every sample.                                   *)
FeedTestingAtChunkEnd(w, windowSize, inp, remaining) ==
  IF remaining = 0 THEN w
  ELSE LET w1 == WriteSamples(w, windowSize, remaining)
       IN  IF w1.ap.hopCounter >= w1.ap.config.hopSize /\ w1.ap.filled >= windowSize
           THEN ProcessFrame([w1 EXCEPT !.ap.hopCounter = 0], inp)
           ELSE w1

RECURSIVE FeedSamples(_, _, _, _)
FeedSamples(w, windowSize, inp, remaining) ==
  IF remaining = 0 THEN w
  ELSE
    LET n == SamplesToHop(w.ap, windowSize)
    IN  IF n > remaining THEN WriteSamples(w, windowSize, remaining)
        ELSE FeedSamples(
               ProcessFrame([WriteSamples(w, windowSize, n) EXCEPT !.ap.hopCounter = 0],
                            inp),
               windowSize, inp, remaining - n)

HandleAudioFrame(w, inp) ==
  IF ~w.ap.running
  THEN [w EXCEPT !.last = [NoOp EXCEPT !.op = "frame", !.outcome = "ignored"]]
  ELSE LET w1 == FeedSamples([w EXCEPT !.log.inFrame = TRUE],
                             w.ap.config.windowSize, inp, inp.len)
       IN  [w1 EXCEPT !.last = [NoOp EXCEPT !.op = "frame",
                                            !.outcome = "handled",
                                            !.hops = w1.log.frameHops,
                                            !.events = w1.log.frameEvents,
                                            !.errs = w1.log.frameErrors,
                                            !.threw = w1.log.frameThrows,
                                            !.reinit = w1.log.nReinits # w.log.nReinits,
                                            !.stopped = w1.log.nStops # w.log.nStops],
                      !.log.frameHops = 0, !.log.frameEvents = 0,
                      !.log.frameErrors = 0, !.log.frameThrows = 0,
                      !.log.inFrame = FALSE]

(* The samples of a chunk delivered in messages of one sample each. *)
RECURSIVE OneAtATime(_, _, _)
OneAtATime(w, inp, n) ==
  IF n = 0 THEN w
  ELSE OneAtATime(HandleAudioFrame(w, [inp EXCEPT !.len = 1]), inp, n - 1)

(***************************************************************************)
(* The inputs of the model.                                                *)
(***************************************************************************)
Silence == [rms |-> 0, tones |-> {}]
Quiet == [rms |-> 5, tones |-> {[hz |-> 12000, mag |-> 20]}]
Faint == [rms |-> 100, tones |-> {[hz |-> 12000, mag |-> 3]}]
Loud == [rms |-> 100, tones |-> {[hz |-> 12000, mag |-> 20]}]
Chord == [rms |-> 100, tones |-> {[hz |-> 12000, mag |-> 20], [hz |-> 18000, mag |-> 10]}]

Soft == [rms |-> 20, tones |-> {[hz |-> 12000, mag |-> 20], [hz |-> 18000, mag |-> 10]}]
Pair == [rms |-> 100, tones |-> {[hz |-> 12000, mag |-> 20], [hz |-> 15000, mag |-> 20]}]

Signals == {Silence, Quiet, Faint, Loud, Chord}

TunerSignals == {Soft, Loud, Chord, Pair}

(* Constructor configurations with a tuner part. *)
TunerConfigs ==
  { [windowSize |-> 32, hopSize |-> 16, maxHz |-> 20000, smoothing |-> 0,
     tuner |-> [maxHz |-> 20000]],
    [windowSize |-> 32, hopSize |-> 16, maxHz |-> 20000, smoothing |-> 0,
     tuner |-> [maxHz |-> 20000, minProminence |-> 200]],
    [windowSize |-> 32, hopSize |-> 16, maxHz |-> 20000, smoothing |-> 0,
     tuner |-> [maxHz |-> 20000, enabled |-> FALSE]] }

TunerUpdates ==
  { [minProminence |-> 0], [enabled |-> TRUE, minRMS |-> 0], [minHz |-> 16000],
    [minHz |-> 30000], [reactivity |-> 2000] }

WindowUpdates == { [windowSize |-> 20], [windowSize |-> 50], [hopSize |-> 3] }

PcdUpdates == { [smoothing |-> 0, pcdMinRms |-> 0], [windowSize |-> 20] }

NoUpdates == [windowSize |-> 0]

LifeLimits ==
  [starts |-> MaxStarts, stops |-> MaxStops, chunks |-> 1, lens |-> {5},
   signals |-> {Loud}, fails |-> {0}, reacts |-> {"none"},
   updates |-> {}, configs |-> ConstructorConfigs,
   nUpdates |-> 0, tunerUpdates |-> {}]

StreamLimits ==
  [starts |-> 1, stops |-> 1, chunks |-> MaxChunks, lens |-> {3, 6, 32},
   signals |-> {Loud}, fails |-> {0, 1},
   reacts |-> {"none", "updateConfig", "stop"},
   updates |-> WindowUpdates, configs |-> UnsmoothedConfigs,
   nUpdates |-> MaxUpdates, tunerUpdates |-> {}]

PcdLimits ==
  [starts |-> 1, stops |-> 1, chunks |-> MaxChunks, lens |-> {2, 4},
   signals |-> Signals, fails |-> {0, 1}, reacts |-> {"none"},
   updates |-> PcdUpdates, configs |-> ConstructorConfigs,
   nUpdates |-> MaxUpdates, tunerUpdates |-> {}]

(* Constructor configurations and updates for the configuration surface. *)
SurfaceConfigs ==
  { [windowSize |-> 64, hopSize |-> 16],
    [windowSize |-> 64, hopSize |-> 48, minHz |-> 4000],
    [windowSize |-> 64, hopSize |-> 5000],
    [windowSize |-> 64, hopSize |-> 0],
    [windowSize |-> 64, hopSize |-> 16, minHz |-> -5] }

SurfaceUpdates ==
  { [minHz |-> -10], [minHz |-> 5000], [minHz |-> 8000], [maxHz |-> 10],
    [maxHz |-> 9000], [minHz |-> 100, maxHz |-> 50], [minHz |-> 300, maxHz |-> 300],
    [hopSize |-> 100], [hopSize |-> 0], [hopSize |-> -3], [hopSize |-> 8],
    [windowSize |-> 20], [windowSize |-> 20, hopSize |-> 40], [windowSize |-> 100],
    [smoothing |-> 500] }

ConfigLimits ==
  [starts |-> 0, stops |-> 0, chunks |-> 0, lens |-> {}, signals |-> {},
   fails |-> {}, reacts |-> {}, updates |-> SurfaceUpdates,
   configs |-> SurfaceConfigs, nUpdates |-> MaxConfigUpdates, tunerUpdates |-> {}]

(* A stream whose window is made smaller or larger, by the application     *)
(* between chunks or by a listener during one.                             *)
ResizeConfigs ==
  { [windowSize |-> 64, hopSize |-> 16, maxHz |-> 20000, smoothing |-> 0] }

ResizeUpdates == { [windowSize |-> 20], [windowSize |-> 50], [hopSize |-> 8] }

ResizeLimits ==
  [starts |-> 1, stops |-> 1, chunks |-> MaxChunks, lens |-> {16, 64},
   signals |-> {Loud}, fails |-> {0}, reacts |-> {"none", "updateConfig"},
   updates |-> ResizeUpdates, configs |-> ResizeConfigs,
   nUpdates |-> MaxUpdates, tunerUpdates |-> {}]

(* The lifecycle with chunks that reach a second hop boundary after the     *)
(* one at which the listener may call stop().                              *)
IdleLimits ==
  [starts |-> MaxStarts, stops |-> MaxStops, chunks |-> 2, lens |-> {6},
   signals |-> {Loud}, fails |-> {0}, reacts |-> {"none", "stop"},
   updates |-> {}, configs |-> ConstructorConfigs,
   nUpdates |-> 0, tunerUpdates |-> {}]

(* One stream delivered in chunks of several lengths. *)
ChunkConfigs ==
  { [windowSize |-> 4, hopSize |-> 2, maxHz |-> 20000, smoothing |-> 500],
    [windowSize |-> 4, hopSize |-> 3, maxHz |-> 20000, smoothing |-> 0],
    [windowSize |-> 4, hopSize |-> 4, maxHz |-> 20000, smoothing |-> 0] }

ChunkLimits ==
  [starts |-> 1, stops |-> 0, chunks |-> MaxChunks, lens |-> {1, 3, 5, 7},
   signals |-> {Silence, Loud}, fails |-> {0}, reacts |-> {"none"},
   updates |-> {}, configs |-> ChunkConfigs,
   nUpdates |-> 0, tunerUpdates |-> {}]

(* The lifecycle with a listener that may call stop() during a chunk. *)
ReentryLimits ==
  [starts |-> MaxStarts, stops |-> MaxStops, chunks |-> 1, lens |-> {5},
   signals |-> {Loud}, fails |-> {0}, reacts |-> {"none", "stop"},
   updates |-> {}, configs |-> ConstructorConfigs,
   nUpdates |-> 0, tunerUpdates |-> {}]

TunerLimits ==
  [starts |-> 1, stops |-> 1, chunks |-> MaxChunks - 1, lens |-> {32},
   signals |-> TunerSignals, fails |-> {0}, reacts |-> {"none"},
   updates |-> {}, configs |-> TunerConfigs,
   nUpdates |-> 0, tunerUpdates |-> TunerUpdates]

(***************************************************************************)
(* The actions.                                                            *)
(***************************************************************************)
NextCall == NextCallOf(World)

Start ==
  /\ log.nStarts < limits.starts
  /\ \E ctor \in BOOLEAN :
       Becomes(Leave(StartSync(Enter(World, NextCall, "start"), NextCall, ctor)))

AddModuleSettles ==
  \E c \in CallIds, ok \in BOOLEAN :
    /\ calls[c].pc = "addModule"
    /\ Becomes(Leave(StartAfterAddModule(Resume(World, c), c, ok)))

GetUserMediaSettles ==
  \E c \in CallIds, ok \in BOOLEAN, failAt \in FailPoints :
    /\ calls[c].pc = "getUserMedia"
    /\ ok \/ failAt = "none"
    /\ Becomes(Leave(StartAfterGetUserMedia(Resume(World, c), c, ok, failAt)))

CloseSettles ==
  \E c \in CallIds :
    /\ calls[c].pc \in {"close", "catchClose"}
    /\ Becomes(Leave(AfterClose(Resume(World, c), c)))

Stop ==
  /\ log.nStops < limits.stops
  /\ Becomes(Leave(StopCall(Enter(World, NextCall, "stop"), NextCall)))

(* A worklet node whose port still has the handler posts a chunk. *)
Frame ==
  /\ log.nChunks < limits.chunks
  /\ \E node \in onmessage : ctxState[nodeCtx[node]] # "closed"
  /\ \E len \in limits.lens, signal \in limits.signals, failHop \in limits.fails,
        reactHop \in {0, 1}, kind \in limits.reacts,
        updates \in limits.updates \cup {NoUpdates} :
       /\ (kind = "none") = (reactHop = 0)
       /\ (kind = "updateConfig") = (updates # NoUpdates)
       /\ kind = "stop" => log.nStops < limits.stops
       /\ Becomes(Leave(HandleAudioFrame(
            [World EXCEPT !.log.nChunks = @ + 1],
            [len |-> len, signal |-> signal, failHop |-> failHop,
             reactHop |-> reactHop, kind |-> kind, updates |-> updates])))

UpdateConfigCall ==
  /\ log.nUpdates < limits.nUpdates
  /\ \E updates \in limits.updates :
       Becomes(UpdateConfig([World EXCEPT !.log.nUpdates = @ + 1], updates))

UpdateTunerCall ==
  /\ log.nTunerUpdates < MaxTunerUpdates
  /\ \E updates \in limits.tunerUpdates :
       Becomes(UpdateTuner([World EXCEPT !.log.nTunerUpdates = @ + 1], updates))

Next ==
  \/ Start
  \/ AddModuleSettles
  \/ GetUserMediaSettles
  \/ CloseSettles
  \/ Stop
  \/ Frame

Init == limits = LifeLimits /\ InitProcessor

Spec == Init /\ [][Next]_vars

NextStream ==
  \/ Start
  \/ AddModuleSettles
  \/ GetUserMediaSettles
  \/ CloseSettles
  \/ Stop
  \/ Frame
  \/ UpdateConfigCall

InitStream == limits = StreamLimits /\ InitProcessor

SpecStream == InitStream /\ [][NextStream]_vars

InitPcd == limits = PcdLimits /\ InitProcessor

SpecPcd == InitPcd /\ [][NextStream]_vars

InitReentry == limits = ReentryLimits /\ InitProcessor

(* A worklet node posts a chunk; log.perSample is the processor that is    *)
(* given the same samples in messages of one sample each.                  *)
ChunkedFrame ==
  /\ log.nChunks < limits.chunks
  /\ \E node \in onmessage : ctxState[nodeCtx[node]] # "closed"
  /\ \E len \in limits.lens, signal \in limits.signals :
       LET inp == [len |-> len, signal |-> signal, failHop |-> 0,
                   reactHop |-> 0, kind |-> "none", updates |-> NoUpdates]
           w0 == [World EXCEPT !.log.nChunks = @ + 1, !.log.keepFrames = TRUE]
           alone == IF log.keepFrames THEN log.perSample
                    ELSE [w0 EXCEPT !.log.perSample = <<>>]
       IN  Becomes([Leave(HandleAudioFrame(w0, inp))
                      EXCEPT !.log.perSample = OneAtATime(alone, inp, len)])

NextChunks ==
  \/ Start
  \/ AddModuleSettles
  \/ GetUserMediaSettles
  \/ CloseSettles
  \/ ChunkedFrame

InitChunks == limits = ChunkLimits /\ InitProcessor

SpecChunks == InitChunks /\ [][NextChunks]_vars

InitResize == limits = ResizeLimits /\ InitProcessor

InitIdle == limits = IdleLimits /\ InitProcessor

SpecIdle == InitIdle /\ [][Next]_vars

SpecResize == InitResize /\ [][NextStream]_vars

SpecReentry == InitReentry /\ [][Next]_vars

NextConfig == UpdateConfigCall

(* PitchClassComputer is an exported class and compute its public method:  *)
(* it is called here with any spectrum length, sample rate and refA4.      *)
Low == [rms |-> 100, tones |-> {[hz |-> 3000, mag |-> 20], [hz |-> 4500, mag |-> 10]}]

LookupSignals == {Low, Loud}

LookupKeys ==
  [length : {8, 16}, sampleRate : {24000, DefaultSampleRate},
   a4 : {415, DefaultRefA4, 880}]

ComputeCall ==
  /\ log.nComputes < MaxComputes
  /\ \E signal \in limits.signals, key \in LookupKeys :
       LET options == [ap.config EXCEPT !.refA4 = key.a4]
           magnitudes == Transform(signal, 2 * key.length, key.sampleRate)
           pcc == EnsureLookup(ap.pcdComputer, key.length, key.sampleRate, key.a4)
           out == ComputeWith(pcc.lookupTable, magnitudes, key.length,
                              key.sampleRate, options)
           rebuiltOut == ComputeWith(BuildLookup(key.length, key.sampleRate, key.a4),
                                     magnitudes, key.length, key.sampleRate, options)
       IN  Becomes([World EXCEPT
                      !.ap.pcdComputer = pcc,
                      !.ap.rawPcd = out,
                      !.log.nComputes = @ + 1,
                      !.log.lastCompute =
                         [valid |-> TRUE, key |-> key,
                          hadPrevious |-> log.lastCompute.valid,
                          previous |-> log.lastCompute.key,
                          out |-> out, rebuiltOut |-> rebuiltOut,
                          magnitudes |-> magnitudes, options |-> options],
                      !.last = [NoOp EXCEPT !.op = "compute"]])

LookupLimits ==
  [starts |-> 0, stops |-> 0, chunks |-> 0, lens |-> {},
   signals |-> LookupSignals,
   fails |-> {}, reacts |-> {}, updates |-> {},
   configs |-> UnsmoothedConfigs, nUpdates |-> 0, tunerUpdates |-> {}]

NextLookup == ComputeCall

(* compute called with spectra that have energy in bin 0, at the threshold, *)
(* and outside the band, for bands that start at 0 Hz or end below a tone.  *)
Dc == [rms |-> 100, tones |-> {[hz |-> 0, mag |-> 20], [hz |-> 3000, mag |-> 20],
                               [hz |-> 4500, mag |-> 5]}]

ComputeSignals == {Silence, Dc, Low, Loud}

ComputeConfigs ==
  { [minHz |-> 0, maxHz |-> 20000, pcdThreshold |-> 5, pcdNormalize |-> 10],
    [minHz |-> 0, maxHz |-> 9000, pcdThreshold |-> 5, pcdNormalize |-> 20],
    [minHz |-> 4000, maxHz |-> 20000, pcdThreshold |-> 0, pcdNormalize |-> 10],
    [minHz |-> 4000, maxHz |-> 9000, pcdThreshold |-> 20, pcdNormalize |-> 20] }

ComputeLimits ==
  [starts |-> 0, stops |-> 0, chunks |-> 0, lens |-> {},
   signals |-> ComputeSignals,
   fails |-> {}, reacts |-> {}, updates |-> {},
   configs |-> ComputeConfigs, nUpdates |-> 0, tunerUpdates |-> {}]

InitCompute == limits = ComputeLimits /\ InitProcessor

SpecCompute == InitCompute /\ [][NextLookup]_vars

InitLookup == limits = LookupLimits /\ InitProcessor

SpecLookup == InitLookup /\ [][NextLookup]_vars

(* estimatePrimary is an exported function: it is called here with spectra *)
(* of 2 to 16 bins and bands that are empty, narrow or wide.               *)
EstimateSignals == {Silence, Loud, Chord, Pair, Low}

EstimateHalfSizes == {2, 4, 8, 16}

EstimateBands ==
  { [minHz |-> 0, maxHz |-> 20000], [minHz |-> 16000, maxHz |-> 20000],
    [minHz |-> 13000, maxHz |-> 24000], [minHz |-> 9000, maxHz |-> 3000],
    [minHz |-> 0, maxHz |-> 1000] }

EstimateCall ==
  /\ log.nEstimates < MaxEstimates
  /\ \E signal \in limits.signals, halfSize \in EstimateHalfSizes,
        band \in EstimateBands :
       LET magnitudes == Transform(signal, 2 * halfSize, ap.sampleRate)
       IN  Becomes([World EXCEPT
                      !.log.nEstimates = @ + 1,
                      !.log.lastEstimate =
                         [valid |-> TRUE, magnitudes |-> magnitudes,
                          halfSize |-> halfSize, sampleRate |-> ap.sampleRate,
                          minHz |-> band.minHz, maxHz |-> band.maxHz,
                          est |-> EstimatePrimary(magnitudes, halfSize, ap.sampleRate,
                                                  band.minHz, band.maxHz),
                          reads |-> EstimateReads(magnitudes, halfSize, ap.sampleRate,
                                                  band.minHz, band.maxHz)],
                      !.last = [NoOp EXCEPT !.op = "estimatePrimary"]])

EstimateLimits ==
  [starts |-> 0, stops |-> 0, chunks |-> 0, lens |-> {},
   signals |-> EstimateSignals,
   fails |-> {}, reacts |-> {}, updates |-> {},
   configs |-> UnsmoothedConfigs, nUpdates |-> 0, tunerUpdates |-> {}]

NextEstimate == EstimateCall

InitEstimate == limits = EstimateLimits /\ InitProcessor

SpecEstimate == InitEstimate /\ [][NextEstimate]_vars

(* RealFFT is an exported class and transform its public method: it is     *)
(* called here with frames of any of these lengths.                        *)
FrameLengths == {1, 2, 3, 4, 5, 8, 9, 16, 17, 32}

TransformCall ==
  /\ log.nTransforms < MaxTransforms
  /\ \E signal \in limits.signals, frameLength \in FrameLengths :
       LET fft == EnsureSize(ap.fft, FftSize(frameLength))
           magnitudes == Transform(signal, frameLength, ap.sampleRate)
       IN  Becomes([World EXCEPT
                      !.ap.fft = fft,
                      !.log.nTransforms = @ + 1,
                      !.log.lastTransform =
                         [valid |-> TRUE, frameLength |-> frameLength,
                          sizeBefore |-> ap.fft.size,
                          bins |-> Cardinality(DOMAIN magnitudes)],
                      !.last = [NoOp EXCEPT !.op = "transform"]])

FftLimits ==
  [starts |-> 0, stops |-> 0, chunks |-> 0, lens |-> {},
   signals |-> {Silence, Loud},
   fails |-> {}, reacts |-> {}, updates |-> {},
   configs |-> UnsmoothedConfigs, nUpdates |-> 0, tunerUpdates |-> {}]

NextFft == TransformCall

InitFft == limits = FftLimits /\ InitProcessor

SpecFft == InitFft /\ [][NextFft]_vars

(* hannWindow and clearWindowCache are exports of windowing.js: any module *)
(* of the page may call them, between the processor's own calls.           *)
WindowCallSizes == {-1, 0, 32, 64}

HannWindowCall ==
  /\ log.nWindowCalls < MaxWindowCalls
  /\ \E size \in WindowCallSizes :
       LET wc == HannWindow(windowing, size)
       IN  Becomes([World EXCEPT
                      !.windowing = wc,
                      !.log = LogHannWindow([@ EXCEPT !.nWindowCalls = @ + 1],
                                            windowing, wc, size),
                      !.last = [NoOp EXCEPT !.op = "hannWindow"]])

ClearWindowCacheCall ==
  /\ log.nClears < MaxClears
  /\ Becomes([World EXCEPT !.windowing = ClearWindowCache(@),
                           !.log.nClears = @ + 1,
                           !.log.returned = EmptyCache,
                           !.last = [NoOp EXCEPT !.op = "clearWindowCache"]])

WindowLimits ==
  [starts |-> 0, stops |-> 0, chunks |-> 0, lens |-> {}, signals |-> {},
   fails |-> {}, reacts |-> {}, updates |-> WindowUpdates,
   configs |-> UnsmoothedConfigs, nUpdates |-> MaxUpdates, tunerUpdates |-> {}]

NextWindow ==
  \/ HannWindowCall
  \/ ClearWindowCacheCall
  \/ UpdateConfigCall

InitWindow == limits = WindowLimits /\ InitProcessor

SpecWindow == InitWindow /\ [][NextWindow]_vars

InitConfig == limits = ConfigLimits /\ InitProcessor

SpecConfig == InitConfig /\ [][NextConfig]_vars

(* Spectra whose peak has unequal neighbours, so that the interpolation    *)
(* moves the frequency off the bin centre, and reference pitches that make *)
(* the note number negative.                                               *)
Slide == [rms |-> 100, tones |-> {[hz |-> 12000, mag |-> 20], [hz |-> 13500, mag |-> 10]}]
Edge == [rms |-> 100, tones |-> {[hz |-> 13500, mag |-> 30], [hz |-> 15000, mag |-> 20],
                                 [hz |-> 16500, mag |-> 10]}]
EdgeLow == [rms |-> 100, tones |-> {[hz |-> 13500, mag |-> 30], [hz |-> 15000, mag |-> 20]}]

PitchSignals == {Loud, Slide, Edge, EdgeLow}

PitchConfigs ==
  { [windowSize |-> 32, hopSize |-> 16, maxHz |-> 20000, smoothing |-> 0,
     tuner |-> [maxHz |-> 20000, minProminence |-> 0]],
    [windowSize |-> 32, hopSize |-> 16, maxHz |-> 20000, smoothing |-> 0,
     refA4 |-> 880, tuner |-> [maxHz |-> 20000, minProminence |-> 0]],
    [windowSize |-> 32, hopSize |-> 16, maxHz |-> 20000, smoothing |-> 0,
     refA4 |-> 901120, tuner |-> [maxHz |-> 20000, minProminence |-> 0]] }

PitchLimits ==
  [starts |-> 1, stops |-> 1, chunks |-> MaxChunks - 1, lens |-> {32},
   signals |-> PitchSignals, fails |-> {0}, reacts |-> {"none"},
   updates |-> {}, configs |-> PitchConfigs,
   nUpdates |-> 0, tunerUpdates |-> {[minHz |-> 16000], [minHz |-> 0]}]

InitPitch == limits = PitchLimits /\ InitProcessor

NextTuner ==
  \/ Start
  \/ AddModuleSettles
  \/ GetUserMediaSettles
  \/ CloseSettles
  \/ Stop
  \/ Frame
  \/ UpdateTunerCall

InitTuner == limits = TunerLimits /\ InitProcessor

SpecTuner == InitTuner /\ [][NextTuner]_vars

SpecPitch == InitPitch /\ [][NextTuner]_vars

(***************************************************************************)
(* Properties.  What a claim counts "since the last reset" is read from    *)
(* log: samples written, analysis events dispatched, hops whose pipeline   *)
(* threw.  log.steady says that windowSize and hopSize had one value during *)
(* every handleAudioFrame call that delivered those samples: hopSize was   *)
(* not changed since the reset, and the reset was not a window change made *)
(* by a listener while a chunk was being consumed.  last describes the     *)
(* step that led to the state.                                             *)
(***************************************************************************)
HopsDue(n, windowSize, hopSize) ==
  IF n < windowSize THEN 0 ELSE 1 + ((n - windowSize) \div hopSize)

FixedWindowAndHop ==
  /\ ap.running
  /\ log.steady
  /\ 1 <= ap.config.hopSize
  /\ ap.config.hopSize <= ap.config.windowSize

(* C1: while Running with windowSize W and hopSize H fixed (1 <= H <= W)    *)
(* and no pipeline failure, after n samples since the last reset the       *)
(* number of analysis events dispatched is 0 if n < W and                  *)
(* 1 + floor((n - W) / H) if n >= W.                                       *)
C1_EventPerHopBoundary ==
  (FixedWindowAndHop /\ log.failures = 0)
    => log.events = HopsDue(log.samples, ap.config.windowSize, ap.config.hopSize)

(* C1, witness: several hops after a window change made between chunks. *)
C1_HopsAfterWindowChange ==
  /\ FixedWindowAndHop
  /\ log.failures = 0
  /\ ap.config.windowSize = 32
  /\ log.samples > ap.config.windowSize
  /\ log.events >= 2

NonNegative(v) == v.d > 0 /\ \A i \in Classes : v.n[i] >= 0

(* C2: after any sequence of hops since the last reset, the 12 components  *)
(* of the smoothed PCD are non-negative and sum to 1 if at least one hop   *)
(* since that reset had positive raw energy, and are all zero otherwise.   *)
C2_SmoothedPcdSumsToOne ==
  /\ NonNegative(ap.currentPcd)
  /\ IF log.energetic
     THEN VecSum(ap.currentPcd) = ap.currentPcd.d
     ELSE IsZeroVec(ap.currentPcd)

(* C2, amended: the 12 components of the smoothed PCD are non-negative and *)
(* sum to at most 1, and are all zero if no hop since the last reset had   *)
(* positive raw energy.                                                    *)
C2_SmoothedPcdAtMostOne ==
  /\ NonNegative(ap.currentPcd)
  /\ VecSum(ap.currentPcd) <= ap.currentPcd.d
  /\ ~log.energetic => IsZeroVec(ap.currentPcd)

(* C2, witness: energetic hops have left a smoothed PCD that sums to less  *)
(* than 1.                                                                 *)
C2_PartlyConvergedPcd ==
  /\ log.energetic
  /\ log.events >= 2
  /\ VecSum(ap.currentPcd) > 0
  /\ VecSum(ap.currentPcd) < ap.currentPcd.d

(* C3: if the per-hop pipeline throws inside processFrame, an error event   *)
(* is dispatched for that hop and no analysis event, running stays true,   *)
(* and the following hop boundaries are processed normally: every hop of   *)
(* the chunk that did not throw dispatched its analysis event, and the     *)
(* hops taken since the reset (dispatched or failed) are the ones due.     *)
C3_FailedHopIsSkipped ==
  (last.op = "frame" /\ last.threw > 0)
    => /\ last.errs = last.threw
       /\ last.events = last.hops - last.threw
       /\ ap.running
       /\ FixedWindowAndHop
            => log.events + log.failures =
                 HopsDue(log.samples, ap.config.windowSize, ap.config.hopSize)

(* C3, witness: a chunk in which a hop threw and a later hop was analysed. *)
C3_HopAfterFailedHop ==
  /\ last.op = "frame"
  /\ last.threw > 0
  /\ last.events > 0
  /\ ap.running

(* C4: when resource acquisition fails at any step of a start() attempt,    *)
(* exactly one error event is dispatched and the promise rejects, no       *)
(* statechange event is dispatched, and afterwards running is false and    *)
(* audioContext, micStream, mediaStreamSource, workletNode and silentGain  *)
(* are all null.                                                           *)
C4_FailedStartRevertsToIdle ==
  last.outcome = "rejected"
    => /\ last.errs = 1
       /\ last.stch = 0
       /\ ~ap.running
       /\ Held(ap) = {}

(* C5: stop() releases the capture resources and resets buffers and PCD     *)
(* state before the processor becomes Idle: when running becomes false and *)
(* statechange {running: false} is dispatched, the worklet node, gain      *)
(* node, media source, microphone stream and audio context have been       *)
(* released and the counters and smoothed PCD are zero.                    *)
C5_ReleasedBeforeIdle ==
  (log.atStateChange.valid /\ ~log.atStateChange.running)
    => /\ log.atStateChange.held = {}
       /\ log.atStateChange.zeroed

AllSettled == \A c \in CallIds : calls[c].pc = "idle"

(* C6: for any interleaving of start() and stop() calls, once all calls     *)
(* have settled and the processor is Idle, every AudioContext created has  *)
(* been closed and every acquired microphone stream has been stopped.      *)
C6_NoCaptureResourceLeftOpen ==
  (AllSettled /\ ~ap.running)
    => /\ \A i \in CtxIds : ctxState[i] \in {"none", "closed"}
       /\ \A i \in CallIds : trackState[i] \in {"none", "stopped"}

(* C7: in every reachable state in which running is true, audioContext,     *)
(* micStream, mediaStreamSource, workletNode and silentGain are non-null   *)
(* and the worklet message handler is installed.                           *)
C7_RunningHoldsAllResources ==
  ap.running => (Held(ap) = Resources /\ ap.workletNode \in onmessage)

Alternates(events) == \A i \in 1 .. Len(events) : events[i] = (i % 2 = 1)

StartCalled == log'.nStarts = log.nStarts + 1

StopCalled == log'.nStops = log.nStops + 1

NothingChanged ==
  /\ UNCHANGED <<ap, ctxState, trackState, nodeCtx, onmessage>>
  /\ log'.stateEvents = log.stateEvents

C8_StateChangeStep ==
  /\ log'.stateEvents = IF ap'.running # ap.running
                        THEN Append(log.stateEvents, ap'.running)
                        ELSE log.stateEvents
  /\ Alternates(log'.stateEvents)
  /\ (StartCalled /\ ap.running) => NothingChanged
  /\ (StopCalled /\ ~ap.running /\ ap.audioContext = Null /\ ap.micStream = Null)
       => NothingChanged

(* C8: a statechange event is dispatched exactly when running changes       *)
(* value, so over any sequence of start() and stop() calls the events      *)
(* alternate true, false, ... beginning with true; start() on a Running    *)
(* processor and stop() on an Idle processor holding no resources dispatch *)
(* no event and change no state.                                           *)
C8_StateChangeOnEveryTransition == [][C8_StateChangeStep]_vars

(* C8, witness: a stop() that found the processor Idle after a session. *)
C8_IdleStopAfterFullCycle ==
  /\ Len(log.stateEvents) >= 2
  /\ last.op = "stop"
  /\ last.outcome = "returned"

(* C9: while Running, updateConfig with a windowSize that maps to another   *)
(* power of two reallocates the buffers at the new length and zeroes       *)
(* writeIndex, filled and hopCounter; the next chunk is processed without  *)
(* error, and no analysis event is dispatched before windowSize new        *)
(* samples have arrived after the change.                                  *)
C9_WindowChangeRestartsFill ==
  /\ (last.op = "updateConfig" /\ last.reinit)
       => /\ ap.writeIndex = 0 /\ ap.filled = 0 /\ ap.hopCounter = 0
          /\ ap.ringLen = ap.config.windowSize
          /\ ap.analysisLen = ap.config.windowSize
          /\ ap.windowLen = ap.config.windowSize
  /\ (last.op = "frame" /\ last.threw = 0) => last.errs = 0
  /\ (ap.running /\ log.resetBy = "updateConfig"
        /\ log.samples < ap.config.windowSize)
       => log.events = 0

ScaleBy(v, mille) ==
  Reduce([n |-> [i \in Classes |-> mille * v.n[i]], d |-> 1000 * v.d])

GatedHop ==
  /\ log.lastHop.valid
  /\ ~log.lastHop.threw
  /\ log.lastHop.rms < log.lastHop.minRms

(* C10: on a hop whose frame RMS is below pcdMinRms (and whose pipeline    *)
(* does not throw) an analysis event is still emitted, its raw PCD is all  *)
(* zero, and every smoothed component becomes smoothing times its previous *)
(* value, so none grows.                                                   *)
C10_GatedHopDecays ==
  GatedHop
    => /\ log.lastHop.emitted
       /\ IsZeroVec(ap.rawPcd)
       /\ ap.currentPcd = ScaleBy(log.lastHop.prevPcd, log.lastHop.smoothing)
       /\ \A i \in Classes :
            ap.currentPcd.n[i] * log.lastHop.prevPcd.d
              <= log.lastHop.prevPcd.n[i] * ap.currentPcd.d

(* C10, witness: a gated hop that follows energetic hops and decays a      *)
(* smoothed PCD that was not zero.                                         *)
C10_GatedHopAfterEnergy ==
  /\ GatedHop
  /\ log.lastHop.emitted
  /\ ~IsZeroVec(log.lastHop.prevPcd)
  /\ ~IsZeroVec(ap.currentPcd)

IsPowerOfTwo(n) == \E e \in 0 .. 30 : Pow2(e) = n

(* C12: in every reachable state, directly after construction from any      *)
(* caller-supplied config and after any sequence of updateConfig calls,    *)
(* config.windowSize is a power of two >= 32, and the ring buffer, the     *)
(* analysis buffer and the window table have that length.                  *)
C12_WindowSizeIsPowerOfTwo ==
  /\ ap.config.windowSize >= MinWindow
  /\ IsPowerOfTwo(ap.config.windowSize)
  /\ ap.ringLen = ap.config.windowSize
  /\ ap.analysisLen = ap.config.windowSize
  /\ ap.windowLen = ap.config.windowSize

(* C11: an analysis event carries a non-null primary-pitch result only if,  *)
(* at that hop, the tuner is enabled, the frame RMS is >= the tuner's      *)
(* minRMS, the estimator returned a candidate and the candidate's          *)
(* prominence is >= the tuner's minProminence; in every other case primary *)
(* is null.                                                                *)
C11_PrimaryOnlyThroughAllGates ==
  (log.lastHop.valid /\ log.lastHop.emitted)
    => (log.lastHop.primary.found
          <=> /\ log.lastHop.tuner.enabled
              /\ log.lastHop.rms >= log.lastHop.tuner.minRMS
              /\ log.lastHop.candidate.found
              /\ ProminenceAtLeast(log.lastHop.candidate,
                                   log.lastHop.tuner.minProminence))

(* C11, witness: an event whose primary is the candidate, accepted for a    *)
(* prominence taken from neighbours that are not all zero.                 *)
C11_PrimaryAccepted ==
  /\ log.lastHop.valid
  /\ log.lastHop.emitted
  /\ log.lastHop.candidate.sum > 0
  /\ log.lastHop.tuner.minProminence > 0
  /\ log.lastHop.primary.found

(* C13: after any updateTuner call the tuner configuration read back holds  *)
(* validated values: maxHz > minHz >= 0 and reactivity within [0.05, 1.0]. *)
C13_TunerConfigValidated ==
  log.nTunerUpdates > 0
    => /\ ap.tunerConfig.maxHz > ap.tunerConfig.minHz
       /\ ap.tunerConfig.minHz >= 0
       /\ ap.tunerConfig.reactivity >= 50
       /\ ap.tunerConfig.reactivity <= 1000

AfterUpdateConfig == last.op = "updateConfig" /\ log.lastUpdate.valid

(* C14: after every updateConfig call, for any combination of minHz and     *)
(* maxHz updates, maxHz > minHz >= 0: a negative minHz is clamped to 0,    *)
(* raising minHz to or above the current maxHz moves maxHz to minHz + 1,   *)
(* and a supplied maxHz <= minHz is replaced by minHz + 1 while minHz is   *)
(* left as is.                                                             *)
C14_MaxHzAboveMinHz ==
  AfterUpdateConfig
    => LET u == log.lastUpdate.updates
           before == log.lastUpdate.before
           cfg == ap.config
           minHz == IF Has(u, "minHz") THEN Max(0, u.minHz) ELSE before.minHz
       IN  /\ cfg.maxHz > cfg.minHz
           /\ cfg.minHz >= 0
           /\ (Has(u, "minHz") /\ u.minHz < 0) => cfg.minHz = 0
           /\ (Has(u, "minHz") /\ ~Has(u, "maxHz") /\ u.minHz >= before.maxHz)
                => (cfg.minHz = u.minHz /\ cfg.maxHz = u.minHz + 1)
           /\ (Has(u, "maxHz") /\ u.maxHz <= minHz)
                => (cfg.minHz = minHz /\ cfg.maxHz = minHz + 1)

(* C15: after every updateConfig call, 1 <= hopSize <= windowSize: a        *)
(* requested hop larger than the window is clamped to the window length,   *)
(* and shrinking the window below the current hop (with no hopSize in the  *)
(* same update) also lowers hopSize to the new window length.              *)
C15_HopWithinWindow ==
  AfterUpdateConfig
    => LET u == log.lastUpdate.updates
           before == log.lastUpdate.before
           cfg == ap.config
       IN  /\ 1 <= cfg.hopSize
           /\ cfg.hopSize <= cfg.windowSize
           /\ (Truthy(u, "hopSize") /\ u.hopSize > cfg.windowSize)
                => cfg.hopSize = cfg.windowSize
           /\ (~Truthy(u, "hopSize") /\ cfg.windowSize < before.hopSize)
                => cfg.hopSize = cfg.windowSize

(* C19: at every hop the analysis frame before windowing equals the most    *)
(* recent windowSize samples delivered, in arrival order: analysisBuffer[i] *)
(* is the sample that arrived (windowSize - i) samples ago, the oldest at  *)
(* index 0 and the newest at index windowSize - 1.                         *)
C19_FrameIsLastWindowInOrder ==
  log.lastHop.valid
    => /\ Len(log.lastHop.frame) = log.lastHop.windowSize
       /\ \A i \in 1 .. log.lastHop.windowSize :
            log.lastHop.frame[i] = log.lastHop.newest - log.lastHop.windowSize + i

(* A stop() call has run to its end: called by the application, resumed     *)
(* after its await, or called by a listener during a chunk and not left    *)
(* waiting for the context to close.                                       *)
StopCompleted ==
  \/ last.op = "stop" /\ last.outcome \in {"resolved", "returned"}
  \/ last.op = "close" /\ last.outcome = "resolved"
  \/ last.op = "frame" /\ last.stopped /\ \A c \in CallIds : calls[c].pc # "close"

StartSucceeded == last.op = "getUserMedia" /\ last.outcome = "resolved"

(* C16: once stop() has completed, and immediately after a successful       *)
(* start(), writeIndex, filled and hopCounter are 0 and the smoothed PCD,  *)
(* the raw PCD and lastRms are all zero, and the ring buffer holds no      *)
(* sample of the previous session.                                         *)
C16_ZeroedAfterStopAndStart ==
  (StopCompleted \/ StartSucceeded)
    => (Zeroed(ap) /\ ap.ringBuffer = Zeros(Len(ap.ringBuffer)))


(***************************************************************************)
(* C17: the smoothed PCD is one buffer for the processor's whole lifetime: *)
(* the object getCurrentPcd() returned after construction (the one the     *)
(* page keeps as window.currentPCD) is still the object currentPcd refers  *)
(* to after any start, stop, hop or updateConfig, and it is the object     *)
(* every analysis event carries as pcd.                                    *)
(***************************************************************************)
C17_OneStablePcdBuffer ==
  /\ GetCurrentPcd(ap) = log.windowCurrentPCD
  /\ log.windowCurrentPCD # NoObject
  /\ log.lastHop.emitted => log.lastHop.pcd = log.windowCurrentPCD

(* An analysis event was dispatched after start() and a window-size change *)
(* had each reset the buffers, and the smoothed PCD it carries is not zero. *)
C17_EventAfterResets ==
  /\ log.lastHop.emitted
  /\ log.nReinits >= 1
  /\ log.nStarts >= 1
  /\ ~IsZeroVec(ap.currentPcd)


(***************************************************************************)
(* C18: hannWindow(N) is idempotent.  A call for a size that an earlier    *)
(* call was made for since the cache was last cleared (calls for other     *)
(* sizes in between or not) returns the object that call returned and      *)
(* computes no table; a call for a size not asked for since the last clear *)
(* (or never) computes one table, an object no earlier call returned.      *)
(***************************************************************************)
C18_HannWindowIdempotent ==
  (log.lastWindow.valid /\ ~log.lastWindow.threw) =>
    /\ log.lastWindow.result.size = log.lastWindow.size
    /\ IF log.lastWindow.previous # NoObject
       THEN /\ log.lastWindow.result = log.lastWindow.previous
            /\ log.lastWindow.after = log.lastWindow.before
       ELSE /\ ~log.lastWindow.seenBefore
            /\ log.lastWindow.after = log.lastWindow.before + 1

(* The last call was a repeated one after calls for two other sizes, and   *)
(* the cache had been cleared before: the size's table is the second one   *)
(* computed for it.                                                        *)
C18_RepeatedCallAfterClear ==
  /\ log.lastWindow.valid
  /\ log.lastWindow.previous # NoObject
  /\ log.lastWindow.cleared
  /\ Cardinality(DOMAIN windowing.cache) >= 3
  /\ \E t \in log.everReturned :
       t.size = log.lastWindow.size /\ t # log.lastWindow.result


(***************************************************************************)
(* C20: the bin-to-pitch-class lookup table is rebuilt exactly when the    *)
(* key (magnitudes length, sample rate, refA4) of a compute call differs   *)
(* from the key of the previous compute call (the first call builds it),   *)
(* the table in use after a call is the one of that call's key, and the    *)
(* PCD the call returns is the PCD it returns with a table built anew.     *)
(***************************************************************************)
C20_LookupRebuiltExactlyOnKeyChange ==
  log.lastCompute.valid =>
    /\ ap.pcdComputer.rebuilt
         <=> (~log.lastCompute.hadPrevious
                \/ log.lastCompute.key # log.lastCompute.previous)
    /\ ap.pcdComputer.lookupTable
         = BuildLookup(log.lastCompute.key.length, log.lastCompute.key.sampleRate,
                       log.lastCompute.key.a4)
    /\ log.lastCompute.out = log.lastCompute.rebuiltOut

(* A compute call whose key differs from the previous call's only in refA4 *)
(* (415 after 440), for which the two tables give different PCDs.          *)
C20_OnlyRefA4Changed ==
  /\ log.lastCompute.valid
  /\ log.lastCompute.hadPrevious
  /\ log.lastCompute.key.a4 = 415
  /\ log.lastCompute.previous = [log.lastCompute.key EXCEPT !.a4 = DefaultRefA4]
  /\ ~IsZeroVec(log.lastCompute.out)
  /\ ComputeWith(BuildLookup(log.lastCompute.previous.length,
                             log.lastCompute.previous.sampleRate,
                             log.lastCompute.previous.a4),
                 Transform(Low, 2 * log.lastCompute.key.length,
                           log.lastCompute.key.sampleRate),
                 log.lastCompute.key.length, log.lastCompute.key.sampleRate,
                 [ap.config EXCEPT !.refA4 = log.lastCompute.key.a4])
       # log.lastCompute.out


(***************************************************************************)
(* C21: compute returns 12 non-negative values that sum to 1 when at least *)
(* one bin k with max(1, floor(minHz/binHz)) <= k <= min(length - 1,       *)
(* floor(maxHz/binHz)) has a magnitude strictly above the threshold, and   *)
(* all zeros otherwise; the bins outside that band, the bins at or below   *)
(* the threshold and bin 0 contribute nothing: the result is the one of    *)
(* the spectrum with those bins set to zero.                               *)
(***************************************************************************)
CountedBins(magnitudes, length, sampleRate, options) ==
  {k \in 0 .. (length - 1) :
     /\ Max(1, (options.minHz * 2 * length) \div sampleRate) <= k
     /\ k <= Min(length - 1, (options.maxHz * 2 * length) \div sampleRate)
     /\ magnitudes[k] > options.pcdThreshold}

C21_PcdSumsToOneOverCountedBins ==
  log.lastCompute.valid =>
    LET c == log.lastCompute
        counted == CountedBins(c.magnitudes, c.key.length, c.key.sampleRate,
                               c.options)
    IN  /\ NonNegative(c.out)
        /\ IF counted # {} THEN VecSum(c.out) = c.out.d ELSE IsZeroVec(c.out)
        /\ c.out = ComputeWith(BuildLookup(c.key.length, c.key.sampleRate, c.key.a4),
                               [k \in 0 .. (c.key.length - 1) |->
                                  IF k \in counted THEN c.magnitudes[k] ELSE 0],
                               c.key.length, c.key.sampleRate, c.options)

(* A call with minHz = 0 whose spectrum has energy above the threshold in  *)
(* bin 0, a bin exactly at the threshold inside the band, and a counted    *)
(* bin: the result sums to 1.                                              *)
C21_BinZeroAndThresholdBin ==
  /\ log.lastCompute.valid
  /\ log.lastCompute.options.minHz = 0
  /\ log.lastCompute.magnitudes[0] > log.lastCompute.options.pcdThreshold
  /\ \E k \in 1 .. (log.lastCompute.key.length - 1) :
       log.lastCompute.magnitudes[k] = log.lastCompute.options.pcdThreshold
         /\ log.lastCompute.options.pcdThreshold > 0
  /\ CountedBins(log.lastCompute.magnitudes, log.lastCompute.key.length,
                 log.lastCompute.key.sampleRate, log.lastCompute.options) # {}
  /\ VecSum(log.lastCompute.out) = log.lastCompute.out.d
  /\ ~IsZeroVec(log.lastCompute.out)


(* The bit-reversal of i among the indices 0 .. size - 1 (size a power of  *)
(* two): the lowest bit of i becomes the highest.                          *)
RECURSIVE BitReversal(_, _)
BitReversal(i, size) ==
  IF size <= 1 THEN 0
  ELSE (i % 2) * (size \div 2) + BitReversal(i \div 2, size \div 2)

(***************************************************************************)
(* C22: after each transform call the engine size is the smallest power of *)
(* two >= the frame length, the returned spectrum has size/2 bins, the     *)
(* buffers and the bit-reversal table were reallocated exactly when that   *)
(* size differs from the size the previous call left, and the table maps   *)
(* every index to its bit-reversal for the current size, a self-inverse    *)
(* permutation.                                                            *)
(***************************************************************************)
C22_FftSizedToFrame ==
  log.lastTransform.valid =>
    LET t == log.lastTransform
        size == ap.fft.size
        table == ap.fft.bitRevTable
    IN  /\ IsPowerOfTwo(size)
        /\ size >= t.frameLength
        /\ size > 1 => size \div 2 < t.frameLength
        /\ t.bins = size \div 2
        /\ ap.fft.reallocated <=> size # t.sizeBefore
        /\ DOMAIN table = 0 .. (size - 1)
        /\ \A i \in 0 .. (size - 1) :
             /\ table[i] = BitReversal(i, size)
             /\ table[i] \in 0 .. (size - 1)
             /\ table[table[i]] = i

(* A call with a frame that is not a power of two long, after a call that  *)
(* left a larger size, and one that left the size as it was.               *)
C22_PaddedFrameAfterLarger ==
  /\ log.lastTransform.valid
  /\ ~IsPowerOfTwo(log.lastTransform.frameLength)
  /\ log.lastTransform.sizeBefore > ap.fft.size
  /\ ap.fft.size >= 8
  /\ ap.fft.reallocated


(* The clamped search range [max(2, floor(minHz/binHz)),                   *)
(* min(len - 3, floor(maxHz/binHz))] of an estimatePrimary call.           *)
SearchRange(e) ==
  {i \in 0 .. (e.halfSize - 1) :
     /\ Max(2, (e.minHz * 2 * e.halfSize) \div e.sampleRate) <= i
     /\ i <= Min(e.halfSize - 3, (e.maxHz * 2 * e.halfSize) \div e.sampleRate)}

(***************************************************************************)
(* C23: estimatePrimary returns null, and has read no bin outside the      *)
(* magnitude array, whenever the clamped search range is empty or its      *)
(* largest magnitude is below the floor; otherwise it returns a result     *)
(* whose peak bin is the lowest-index bin of the range that attains the    *)
(* largest magnitude of the range.                                         *)
(***************************************************************************)
C23_NullOrLowestPeak ==
  log.lastEstimate.valid =>
    LET e == log.lastEstimate
        range == SearchRange(e)
        weak == \A i \in range : e.magnitudes[i] < MinMagnitude
    IN  IF range = {} \/ weak
        THEN /\ ~e.est.found
             /\ e.reads \subseteq DOMAIN e.magnitudes
        ELSE /\ e.est.found
             /\ e.est.k \in range
             /\ \A i \in range : e.magnitudes[i] <= e.magnitudes[e.est.k]
             /\ \A i \in range : i < e.est.k => e.magnitudes[i] < e.magnitudes[e.est.k]

(* A call whose range holds two bins of the same, largest magnitude.       *)
C23_TwoEqualPeaks ==
  /\ log.lastEstimate.valid
  /\ log.lastEstimate.est.found
  /\ \E i \in SearchRange(log.lastEstimate) :
       /\ i > log.lastEstimate.est.k
       /\ log.lastEstimate.magnitudes[i] = log.lastEstimate.est.maxVal


(***************************************************************************)
(* C24: the estimator reports the literal 0 dB only when no neighbour bin  *)
(* was sampled; whenever at least one neighbour bin was sampled the        *)
(* prominence is 20*log10((peak + 1e-12) / (avgNeighbor + 1e-12)), also    *)
(* when every sampled neighbour magnitude is zero.                         *)
(***************************************************************************)
C24_ProminenceFromNeighbors ==
  (log.lastEstimate.valid /\ log.lastEstimate.est.found) =>
    LET est == log.lastEstimate.est
    IN  est.prominenceDb = IF est.count = 0 THEN ZeroDb
                           ELSE LogRatioDb(est.maxVal, est.sum, est.count)


(***************************************************************************)
(* C25: for every emitted primary-pitch result, freq is strictly positive  *)
(* and within one bin width of the peak bin's centre frequency,            *)
(* nearestMidi is round(69 + 12*log2(freq/refA4)) and cents lies in        *)
(* [-50, 50] (freq lies between the frequencies of nearestMidi - 0.5 and   *)
(* nearestMidi + 0.5 for that refA4), and pitchClass is nearestMidi mod 12 *)
(* within 0..11, also when nearestMidi is negative.                        *)
(***************************************************************************)
C25_PrimaryResultConsistent ==
  (log.lastHop.valid /\ log.lastHop.emitted /\ log.lastHop.result.found) =>
    LET h == log.lastHop
        r == h.result
        note440 == r.nearestMidi + 12 * OctavesAbove440(h.refA4)
    IN  /\ r.freq.n > 0 /\ r.freq.d > 0
        /\ r.freq.n * 2 * h.halfSize
             <= (h.candidate.k + 1) * h.sampleRate * r.freq.d
        /\ r.freq.n * 2 * h.halfSize
             >= (h.candidate.k - 1) * h.sampleRate * r.freq.d
        /\ 10 * r.freq.n >= LowerEdgeTenths(note440) * r.freq.d
        /\ 10 * r.freq.n <= LowerEdgeTenths(note440 + 1) * r.freq.d
        /\ r.pitchClass \in 0 .. 11
        /\ (r.nearestMidi - r.pitchClass) % 12 = 0

(* An emitted result with a negative note number whose frequency the       *)
(* interpolation moved off the centre of the peak bin.                     *)
C25_NegativeNoteOffCentre ==
  /\ log.lastHop.valid
  /\ log.lastHop.emitted
  /\ log.lastHop.result.found
  /\ log.lastHop.result.nearestMidi < 0
  /\ log.lastHop.result.freq.n * 2 * log.lastHop.halfSize
       # log.lastHop.candidate.k * log.lastHop.sampleRate * log.lastHop.result.freq.d


(***************************************************************************)
(* C26: start() is mutually exclusive on one processor: a start() invoked  *)
(* while an earlier start() is still suspended acquires no further audio   *)
(* context or microphone stream, so at most one context is open and at     *)
(* most one stream is live at any time, and an open context is the one the *)
(* processor refers to (none is overwritten while still open).             *)
(***************************************************************************)
C26_OneCapturePipeline ==
  /\ Cardinality({i \in CtxIds : ctxState[i] = "open"}) <= 1
  /\ Cardinality({i \in CallIds : trackState[i] = "live"}) <= 1
  /\ (\E c \in CallIds : calls[c].kind = "start" /\ calls[c].pc # "idle")
       => \A i \in CtxIds : ctxState[i] = "open" => ap.audioContext = i


(* C27: whenever control returns from handleAudioFrame, updateConfig, start *)
(* or stop, also when updateConfig was called by an analysis listener in    *)
(* the middle of a chunk: 0 <= writeIndex < windowSize, 0 <= filled <=      *)
(* windowSize, the ring buffer, the analysis buffer and the window table    *)
(* all have length windowSize, and no sample was written outside the ring   *)
(* buffer.                                                                  *)
C27_BuffersMatchWindowSize ==
  /\ 0 <= ap.writeIndex /\ ap.writeIndex < ap.config.windowSize
  /\ 0 <= ap.filled /\ ap.filled <= ap.config.windowSize
  /\ Len(ap.ringBuffer) = ap.config.windowSize
  /\ ap.ringLen = ap.config.windowSize
  /\ ap.analysisLen = ap.config.windowSize
  /\ ap.windowLen = ap.config.windowSize
  /\ ~log.wroteOutside


(* C28: hop boundaries are counted per sample and do not depend on how the  *)
(* stream is cut into chunks: after the same samples, the processor that    *)
(* received them in chunks of any lengths has dispatched the same number of *)
(* analysis events, each from the same analysis frame, as the processor    *)
(* that received them one sample at a time, and holds the same counters,    *)
(* ring buffer and PCDs.                                                    *)
C28_SameHopsForAnyChunking ==
  log.keepFrames
    => /\ log.frames = log.perSample.log.frames
       /\ log.events = log.perSample.log.events
       /\ log.samples = log.perSample.log.samples
       /\ ap.writeIndex = log.perSample.ap.writeIndex
       /\ ap.filled = log.perSample.ap.filled
       /\ ap.hopCounter = log.perSample.ap.hopCounter
       /\ ap.ringBuffer = log.perSample.ap.ringBuffer
       /\ ap.rawPcd = log.perSample.ap.rawPcd
       /\ ap.currentPcd = log.perSample.ap.currentPcd

C28_ChunkWithSeveralHops ==
  /\ log.keepFrames
  /\ log.nChunks >= 2
  /\ last.op = "frame"
  /\ last.events >= 2
  /\ Len(log.frames) >= 3
  /\ ap.hopCounter > 0


(* C29: no analysis event is dispatched while running is false: not for a   *)
(* chunk that arrives before the first start or after a failed start, not   *)
(* after stop() has been called, be it for the remaining samples of the     *)
(* chunk during which a listener called stop() or for a message that         *)
(* arrives while stop() awaits the closing of the context.                  *)
C29_NoEventWhileNotRunning ==
  /\ ~log.eventWhileIdle
  /\ (last.op = "frame" /\ last.outcome = "ignored") => ~ap.running
  /\ (last.op = "frame" /\ last.outcome = "ignored")
       => last.hops = 0 /\ last.events = 0

C29_HopAfterListenerStop ==
  /\ log.hopWhileIdle
  /\ last.op = "frame"
  /\ last.stopped
  /\ last.events = 1
  /\ ~ap.running


(* C30: an updateConfig call that does not change the effective window     *)
(* size leaves writeIndex, filled, hopCounter, the ring buffer's contents,  *)
(* the raw PCD and the smoothed PCD as they were; only a call that changes  *)
(* the window size resets them, and it zeroes the counters and both PCDs   *)
(* and leaves a ring buffer of zeros.                                       *)
C30_ResetOnlyOnWindowChange ==
  log.lastUpdate.valid
    => LET u == log.lastUpdate
       IN  IF u.after.windowSize = u.before.windowSize
           THEN u.buffersAfter = u.buffersBefore
           ELSE /\ u.buffersAfter.writeIndex = 0
                /\ u.buffersAfter.filled = 0
                /\ u.buffersAfter.hopCounter = 0
                /\ u.buffersAfter.ringBuffer = Zeros(u.after.windowSize)
                /\ IsZeroVec(u.buffersAfter.rawPcd)
                /\ IsZeroVec(u.buffersAfter.currentPcd)

C30_SameWindowWhileFilled ==
  /\ log.lastUpdate.valid
  /\ Truthy(log.lastUpdate.updates, "windowSize")
  /\ log.lastUpdate.updates.windowSize # log.lastUpdate.before.windowSize
  /\ log.lastUpdate.after.windowSize = log.lastUpdate.before.windowSize
  /\ log.lastUpdate.buffersBefore.filled = log.lastUpdate.before.windowSize
  /\ log.lastUpdate.buffersBefore.writeIndex > 0
  /\ ~IsZeroVec(log.lastUpdate.buffersBefore.currentPcd)
  /\ last.op = "updateConfig"

=============================================================================
